---------------------------- MODULE Spec2Model ----------------------------
(***************************************************************************)
(* A model of kale's Keyboard::parse and Keyboard::to_raw_format           *)
(* (src/src/lib.rs).                                                       *)
(*                                                                         *)
(* A character is its Unicode scalar value and a text is a sequence of     *)
(* characters; Chars gives the text of a tuple of one-character strings.   *)
(* An Option<T> is a sequence of length at most one: <<>> is None and      *)
(* <<v>> is Some(v).                                                       *)
(*                                                                         *)
(* An f64 is the record [kind, neg, m, q] that stands for                  *)
(* (-1)^neg * m * 2^q, an infinity or NaN, with m a natural number of any  *)
(* size held as a sequence of digits; the arithmetic rounds as IEEE 754    *)
(* does, numbers are read as serde_json reads them and written as          *)
(* format!("{}") writes them.                                              *)
(***************************************************************************)
EXTENDS Integers, Sequences, FiniteSets, TLC

(***************************************************************************)
(* Characters and text helpers                                             *)
(***************************************************************************)
\* the scalar values of the characters that the program and the JSON
\* grammar name
QUOTE == 34
BSLASH == 92
NL == 10
CR == 13
TAB == 9
COMMA == 44
LBRACE == 123
RBRACE == 125
COLON == 58
LBRACKET == 91
RBRACKET == 93
SPACE == 32
MINUS == 45
PLUS == 43
DOT == 46
SLASH == 47
DIGIT0 == 48
DIGIT9 == 57
LOWER_A == 97
LOWER_B == 98
LOWER_E == 101
LOWER_F == 102
LOWER_N == 110
LOWER_R == 114
LOWER_T == 116
LOWER_U == 117
UPPER_A == 65
UPPER_E == 69
UPPER_F == 70
UPPER_N == 78
LOWER_I == 105

\* the characters U+0020 .. U+005F, in order
Printable ==
    <<" ", "!", "\"", "#", "$", "%", "&", "'", "(", ")", "*", "+", ",",
      "-", ".", "/", "0", "1", "2", "3", "4", "5", "6", "7", "8", "9", ":",
      ";", "<", "=", ">", "?", "@", "A", "B", "C", "D", "E", "F", "G", "H",
      "I", "J", "K", "L", "M", "N", "O", "P", "Q", "R", "S", "T", "U", "V",
      "W", "X", "Y", "Z", "[", "\\", "]", "^", "_">>

\* the characters U+0061 .. U+007E, in order
PrintableLower ==
    <<"a", "b", "c", "d", "e", "f", "g", "h", "i", "j", "k", "l", "m", "n",
      "o", "p", "q", "r", "s", "t", "u", "v", "w", "x", "y", "z", "{", "|",
      "}", "~">>

\* the scalar value of a character written as a string
Code ==
    ("\t" :> TAB) @@ ("\n" :> NL) @@ ("\r" :> CR)
    @@ [c \in {Printable[i] : i \in 1..Len(Printable)} |->
           31 + (CHOOSE i \in 1..Len(Printable) : Printable[i] = c)]
    @@ [c \in {PrintableLower[i] : i \in 1..Len(PrintableLower)} |->
           96 + (CHOOSE i \in 1..Len(PrintableLower) : PrintableLower[i] = c)]

\* the text written as a tuple of one-character strings
Chars(t) == [i \in 1..Len(t) |-> Code[t[i]]]

\* the texts of a record of such tuples
CharsOfEach(names) == [f \in DOMAIN names |-> Chars(names[f])]

None == <<>>
Some(v) == <<v>>
IsSome(o) == Len(o) > 0
UnwrapOr(o, d) == IF Len(o) > 0 THEN o[1] ELSE d

IsDigit(c) == c >= DIGIT0 /\ c <= DIGIT9
DigitVal(c) == c - DIGIT0

\* char::is_whitespace: the characters with the Unicode property
\* White_Space (U+0009..U+000D, U+0020, U+0085, U+00A0, U+1680,
\* U+2000..U+200A, U+2028, U+2029, U+202F, U+205F, U+3000)
IsWhitespace(c) ==
    \/ c \in 9..13
    \/ c \in {32, 133, 160, 5760, 8232, 8233, 8239, 8287, 12288}
    \/ c \in 8192..8202

RECURSIVE TrimStart(_)
TrimStart(s) ==
    IF Len(s) > 0 /\ IsWhitespace(s[1]) THEN TrimStart(Tail(s)) ELSE s

RECURSIVE TrimEnd(_)
TrimEnd(s) ==
    IF Len(s) > 0 /\ IsWhitespace(s[Len(s)])
    THEN TrimEnd(SubSeq(s, 1, Len(s) - 1))
    ELSE s

\* str::trim
Trim(s) == TrimEnd(TrimStart(s))

\* str::replace of CR LF by LF: the CR of every CR LF pair is dropped
ReplaceCRLF(s) ==
    LET marked == [i \in 1..Len(s) |->
                      [c |-> s[i],
                       drop |-> s[i] = CR /\ i < Len(s) /\ s[i + 1] = NL]]
        Kept(m) == ~m.drop
        kept == SelectSeq(marked, Kept)
    IN [i \in 1..Len(kept) |-> kept[i].c]

\* str::replace of CR by LF
ReplaceCR(s) == [i \in 1..Len(s) |-> IF s[i] = CR THEN NL ELSE s[i]]

\* str::split(d): the pieces between the occurrences of d, empty ones kept
RECURSIVE Split(_, _)
Split(s, d) ==
    IF \A i \in 1..Len(s) : s[i] # d THEN <<s>>
    ELSE LET i == CHOOSE j \in 1..Len(s) :
                      s[j] = d /\ \A k \in 1..(j - 1) : s[k] # d
         IN <<SubSeq(s, 1, i - 1)>> \o Split(SubSeq(s, i + 1, Len(s)), d)

\* [T]::join(sep) on texts
RECURSIVE Join(_, _)
Join(parts, sep) ==
    IF Len(parts) = 0 THEN <<>>
    ELSE IF Len(parts) = 1 THEN parts[1]
    ELSE parts[1] \o sep \o Join(Tail(parts), sep)

\* char::len_utf8: the bytes a character takes in a String
Utf8Len(c) ==
    IF c < 128 THEN 1 ELSE IF c < 2048 THEN 2 ELSE IF c < 65536 THEN 3 ELSE 4

\* the bytes that the characters lo..hi of s take, summed by halves
RECURSIVE ByteRange(_, _, _)
ByteRange(s, lo, hi) ==
    IF lo > hi THEN 0
    ELSE IF lo = hi THEN Utf8Len(s[lo])
    ELSE LET mid == (lo + hi) \div 2
         IN ByteRange(s, lo, mid) + ByteRange(s, mid + 1, hi)

\* String::len: the length in bytes
ByteLen(s) == ByteRange(s, 1, Len(s))

\* the first k characters of s with over bytes still to cut off their end;
\* the cut panics inside a character
RECURSIVE TruncateFrom(_, _, _)
TruncateFrom(s, k, over) ==
    IF over = 0 THEN [panic |-> FALSE, text |-> SubSeq(s, 1, k)]
    ELSE IF over < 0 THEN [panic |-> TRUE, text |-> s]
    ELSE TruncateFrom(s, k - 1, over - Utf8Len(s[k]))

\* String::truncate(s.len() - n): n bytes, never more than s has, are cut
\* off the end; a panic when the cut is no character boundary
TruncateBy(s, n) == TruncateFrom(s, Len(s), n)

(***************************************************************************)
(* Natural numbers beyond the machine integers                             *)
(*                                                                         *)
(* A big number is the sequence of its digits in base 2^15, the lowest     *)
(* first and the highest not zero; <<>> is 0.  The operators avoid deep    *)
(* recursion: carries are found by looking back, long runs are split in    *)
(* halves.                                                                 *)
(***************************************************************************)
LimbBits == 15
LimbBase == 32768

\* 2^n for n < 31
RECURSIVE Pow2(_)
Pow2(n) == IF n = 0 THEN 1 ELSE 2 * Pow2(n - 1)

Max(a, b) == IF a > b THEN a ELSE b

\* the digit i of a, 0 beyond its digits
Limb(a, i) == IF i >= 1 /\ i <= Len(a) THEN a[i] ELSE 0

\* the place of the highest digit of a that is not 0, 0 when there is none
TopLimb(a) ==
    IF \A i \in 1..Len(a) : a[i] = 0 THEN 0
    ELSE CHOOSE i \in 1..Len(a) : a[i] # 0 /\ \A j \in (i + 1)..Len(a) : a[j] = 0

\* a without zeros above its highest digit
BigTrim(a) == IF Len(a) > 0 /\ a[Len(a)] = 0 THEN SubSeq(a, 1, TopLimb(a)) ELSE a

\* the digits given as a function, as a sequence
Digits(f) == BigTrim(f \o <<>>)

\* the big number of a natural number
RECURSIVE BigOfInt(_)
BigOfInt(n) ==
    IF n = 0 THEN <<>> ELSE <<n % LimbBase>> \o BigOfInt(n \div LimbBase)

\* -1, 0 or 1 as a is below, equal to or above b
BigCmp(a, b) ==
    IF Len(a) < Len(b) THEN 0 - 1
    ELSE IF Len(a) > Len(b) THEN 1
    ELSE IF \E i \in 1..Len(a) :
                a[i] < b[i] /\ \A j \in (i + 1)..Len(a) : a[j] = b[j]
    THEN 0 - 1
    ELSE IF a = b THEN 0 ELSE 1

\* whether a carry comes into the digit i of a + b: a digit below gives
\* one and the digits between hand it on
Carry(a, b, i) ==
    \E j \in 1..(i - 1) :
        /\ Limb(a, j) + Limb(b, j) >= LimbBase
        /\ \A k \in (j + 1)..(i - 1) : Limb(a, k) + Limb(b, k) = LimbBase - 1

BigAdd(a, b) ==
    Digits([i \in 1..(Max(Len(a), Len(b)) + 1) |->
                (Limb(a, i) + Limb(b, i) + (IF Carry(a, b, i) THEN 1 ELSE 0))
                % LimbBase])

\* whether the digit i of a - b lends one to the digits below
Borrow(a, b, i) ==
    \E j \in 1..(i - 1) :
        /\ a[j] < Limb(b, j)
        /\ \A k \in (j + 1)..(i - 1) : a[k] = Limb(b, k)

\* a - b, for a not below b
BigSub(a, b) ==
    Digits([i \in 1..Len(a) |->
                (a[i] - Limb(b, i) - (IF Borrow(a, b, i) THEN 1 ELSE 0) + LimbBase)
                % LimbBase])

\* a * k, for k up to 2^15: the low parts of the products of the digits
\* plus their high parts one place up
BigMulSmall(a, k) ==
    BigAdd(Digits([i \in 1..Len(a) |-> (a[i] * k) % LimbBase]),
           Digits([i \in 1..(Len(a) + 1) |-> (Limb(a, i - 1) * k) \div LimbBase]))

\* a * 2^r, for r < 15
BigShlBits(a, r) ==
    Digits([i \in 1..(Len(a) + 1) |->
                ((Limb(a, i) * Pow2(r)) % LimbBase)
                + (Limb(a, i - 1) \div Pow2(LimbBits - r))])

\* a * 2^n
BigShl(a, n) ==
    IF Len(a) = 0 THEN <<>>
    ELSE [i \in 1..(n \div LimbBits) |-> 0] \o BigShlBits(a, n % LimbBits)

\* a \div 2^r, for r < 15
BigShrBits(a, r) ==
    Digits([i \in 1..Len(a) |->
                (a[i] \div Pow2(r))
                + ((Limb(a, i + 1) % Pow2(r)) * Pow2(LimbBits - r))])

\* a \div 2^n
BigShr(a, n) ==
    IF n \div LimbBits >= Len(a) THEN <<>>
    ELSE BigShrBits(SubSeq(a, n \div LimbBits + 1, Len(a)), n % LimbBits)

\* a % 2^n
BigLow(a, n) ==
    IF n \div LimbBits >= Len(a) THEN a
    ELSE BigTrim(SubSeq(a, 1, n \div LimbBits)
                 \o <<a[n \div LimbBits + 1] % Pow2(n % LimbBits)>>)

\* a times the digits lo..hi of b in their places, by halves
RECURSIVE BigMulRange(_, _, _, _)
BigMulRange(a, b, lo, hi) ==
    IF lo = hi
    THEN IF b[lo] = 0 THEN <<>>
         ELSE [i \in 1..(lo - 1) |-> 0] \o BigMulSmall(a, b[lo])
    ELSE BigAdd(BigMulRange(a, b, lo, (lo + hi) \div 2),
                BigMulRange(a, b, (lo + hi) \div 2 + 1, hi))

BigMul(a, b) ==
    IF Len(a) = 0 \/ Len(b) = 0 THEN <<>> ELSE BigMulRange(a, b, 1, Len(b))

RECURSIVE BitLenInt(_)
BitLenInt(x) == IF x = 0 THEN 0 ELSE 1 + BitLenInt(x \div 2)

\* the number of binary digits of a
BitLen(a) ==
    IF Len(a) = 0 THEN 0 ELSE (Len(a) - 1) * LimbBits + BitLenInt(a[Len(a)])

\* the binary digit of weight 2^i
BigBit(a, i) == (Limb(a, i \div LimbBits + 1) \div Pow2(i % LimbBits)) % 2

RECURSIVE TrailingZerosInt(_)
TrailingZerosInt(x) == IF x % 2 = 1 THEN 0 ELSE 1 + TrailingZerosInt(x \div 2)

\* the place of the lowest digit of a that is not 0, for a not 0
LowLimb(a) == CHOOSE i \in 1..Len(a) : a[i] # 0 /\ \A j \in 1..(i - 1) : a[j] = 0

\* the number of zero binary digits below the lowest one of a, for a not 0
TrailingZeros(a) == (LowLimb(a) - 1) * LimbBits + TrailingZerosInt(a[LowLimb(a)])

\* the digit of the quotient of rem by b, for rem below b * 2^15 and the
\* highest digit of b at least 2^14: the quotient of the two highest
\* digits of rem by the highest digit of b is that digit, or above it by
\* 2 at most
EstimateLimb(rem, b) ==
    IF Limb(rem, Len(b) + 1) >= b[Len(b)] THEN LimbBase - 1
    ELSE (Limb(rem, Len(b) + 1) * LimbBase + Limb(rem, Len(b))) \div b[Len(b)]

\* the digit found from the estimate d
RECURSIVE QuotientLimb(_, _, _)
QuotientLimb(rem, b, d) ==
    IF BigCmp(BigMulSmall(b, d), rem) > 0 THEN QuotientLimb(rem, b, d - 1) ELSE d

\* one step of a long division by b: the digit d of the quotient of rem
\* goes below the digits st.q, and what is left of rem is the remainder
BigDivLimb(st, b, rem, d) ==
    [q |-> <<d>> \o st.q, r |-> BigSub(rem, BigMulSmall(b, d))]

BigDivStep(st, b, rem) ==
    BigDivLimb(st, b, rem, QuotientLimb(rem, b, EstimateLimb(rem, b)))

\* the steps for the digits i down to 1 of a, each brought down behind
\* the remainder st.r; reading st.q first makes the state so far a value
\* before the rest is divided
RECURSIVE BigDivLimbs(_, _, _, _)
BigDivLimbs(a, b, i, st) ==
    IF i = 0 \/ Len(st.q) < 0 THEN st
    ELSE BigDivLimbs(a, b, i - 1, BigDivStep(st, b, BigTrim(<<a[i]>> \o st.r)))

\* the quotient and remainder st of a * 2^s by b * 2^s are the quotient
\* of a by b, and 2^s times the remainder
BigDivShifted(st, s) == [q |-> BigTrim(st.q), r |-> BigShr(st.r, s)]

\* a by b with the highest digit of b at least 2^14: the highest digits
\* of a, one fewer than b has, are below b; the rest is brought down
BigDivLong(a, b) ==
    BigDivLimbs(a, b, Len(a) - Len(b) + 1,
                [q |-> <<>>, r |-> SubSeq(a, Len(a) - Len(b) + 2, Len(a))])

\* quotient and remainder of a by b, for b not 0: both are moved up by
\* the binary digits that bring the highest digit of b to 2^14 or more
BigDivMod(a, b) ==
    IF BigCmp(a, b) < 0 THEN [q |-> <<>>, r |-> a]
    ELSE BigDivShifted(BigDivLong(BigShl(a, LimbBits - BitLenInt(b[Len(b)])),
                                  BigShl(b, LimbBits - BitLenInt(b[Len(b)]))),
                       LimbBits - BitLenInt(b[Len(b)]))

\* 5^k, by squaring
RECURSIVE BigPow5(_)
BigPow5(k) ==
    IF k = 0 THEN <<1>>
    ELSE IF k % 2 = 1 THEN BigMulSmall(BigPow5(k - 1), 5)
    ELSE BigMul(BigPow5(k \div 2), BigPow5(k \div 2))

\* 10^k
BigPow10(k) == BigShl(BigPow5(k), k)

(***************************************************************************)
(* f64                                                                     *)
(*                                                                         *)
(* A finite f64 is the record [kind |-> "finite", neg, m, q] that stands   *)
(* for (-1)^neg * m * 2^q, with m an odd big number, or with m = 0 and     *)
(* q = 0 for the two zeros; the infinities and NaN have m = 0 and q = 0    *)
(* too.  Every operation rounds as IEEE 754 does: to the nearest f64, to   *)
(* the one with the even significand when two are as near.                 *)
(***************************************************************************)
Zero(neg) == [kind |-> "finite", neg |-> neg, m |-> <<>>, q |-> 0]
Infinity(neg) == [kind |-> "inf", neg |-> neg, m |-> <<>>, q |-> 0]
NaN == [kind |-> "nan", neg |-> FALSE, m |-> <<>>, q |-> 0]

IsZero(a) == a.kind = "finite" /\ Len(a.m) = 0

\* (-1)^neg * m * 2^q for m * 2^q an f64, beyond the largest an infinity
Finite(neg, m, q) ==
    IF Len(m) = 0 THEN Zero(neg)
    ELSE IF BitLen(m) + q > 1024 THEN Infinity(neg)
    ELSE [kind |-> "finite", neg |-> neg,
          m |-> BigShr(m, TrailingZeros(m)),
          q |-> q + TrailingZeros(m)]

\* the exponent of the last binary digit an f64 as large as m * 2^q holds:
\* 53 digits, none below 2^-1074
UlpExponent(m, q) == Max(q + BitLen(m) - 53, 0 - 1074)

\* whether the digits of n below 2^bits are rounded upwards, half telling
\* how they compare with a half of 2^bits: upwards when they are more,
\* and when they are as much and that makes the digits kept even
RoundsUp(n, sticky, bits, half) ==
    half > 0 \/ (half = 0 /\ (sticky \/ BigBit(n, bits) = 1))

\* (-1)^neg * n * 2^q, plus a little when sticky, with the digits below
\* 2^e rounded away
RoundAt(neg, n, q, sticky, e) ==
    Finite(neg,
           IF e <= q THEN n
           ELSE IF RoundsUp(n, sticky, e - q,
                            BigCmp(BigLow(n, e - q), BigShl(<<1>>, e - q - 1)))
           THEN BigAdd(BigShr(n, e - q), <<1>>)
           ELSE BigShr(n, e - q),
           Max(e, q))

\* the f64 nearest to (-1)^neg * n * 2^q, or to a little more when sticky
\* (n has 55 digits or more then)
Round(neg, n, q, sticky) == RoundAt(neg, n, q, sticky, UlpExponent(n, q))

\* i as f64, for a machine integer i: no digit is rounded away
F64(i) == Finite(i < 0, BigOfInt(IF i < 0 THEN 0 - i ELSE i), 0)

\* -a
Neg(a) == IF a.kind = "nan" THEN a ELSE [a EXCEPT !.neg = ~a.neg]

\* the sum of the finite and non-zero a and b, their significands am and
\* bm brought to the exponent q: the sign is that of the larger one, and
\* two that cancel give +0.0
AddAligned(a, b, am, bm, q) ==
    Round(IF a.neg = b.neg THEN a.neg
          ELSE IF BigCmp(am, bm) = 0 THEN FALSE
          ELSE IF BigCmp(am, bm) > 0 THEN a.neg
          ELSE b.neg,
          IF a.neg = b.neg THEN BigAdd(am, bm)
          ELSE IF BigCmp(am, bm) >= 0 THEN BigSub(am, bm)
          ELSE BigSub(bm, am),
          q, FALSE)

\* a + b
Add(a, b) ==
    IF a.kind = "nan" \/ b.kind = "nan" THEN NaN
    ELSE IF a.kind = "inf"
    THEN IF b.kind = "inf" /\ a.neg # b.neg THEN NaN ELSE a
    ELSE IF b.kind = "inf" THEN b
    ELSE IF IsZero(a) /\ IsZero(b) THEN Zero(a.neg /\ b.neg)
    ELSE IF IsZero(a) THEN b
    ELSE IF IsZero(b) THEN a
    ELSE AddAligned(a, b, BigShl(a.m, Max(a.q - b.q, 0)),
                    BigShl(b.m, Max(b.q - a.q, 0)),
                    IF a.q >= b.q THEN b.q ELSE a.q)

\* a * b, for finite a and b
Mul(a, b) == Round(a.neg # b.neg, BigMul(a.m, b.m), a.q + b.q, FALSE)

\* the quotient of a by b from the quotient and remainder d of a.m * 2^s
\* by b.m
DivRounded(a, b, s, d) == Round(a.neg # b.neg, d.q, a.q - s - b.q, Len(d.r) > 0)

\* the digits that a.m is moved up by for its quotient by b.m to have 55
\* digits or more
DivShift(a, b) == Max(0, 55 + BitLen(b.m) - BitLen(a.m))

\* a / b, for finite a and b, b not zero
Div(a, b) ==
    IF IsZero(a) THEN Zero(a.neg # b.neg)
    ELSE DivRounded(a, b, DivShift(a, b),
                    BigDivMod(BigShl(a.m, DivShift(a, b)), b.m))

\* a == b
NumEq(a, b) ==
    /\ a.kind # "nan"
    /\ b.kind # "nan"
    /\ (IsZero(a) /\ IsZero(b)) \/ a = b

\* a < 0.0
IsNegative(a) == a.kind # "nan" /\ a.neg /\ ~IsZero(a)

\* the f64 nearest to 10^k: the table POW10 of serde_json, k in 0..308
POW10(k) == Round(FALSE, BigPow5(k), k, FALSE)

\* f *= pow: an infinite product is refused
MulChecked(product) == [ok |-> product.kind = "finite", f |-> product]

\* the loop of serde_json's f64_from_parts: f scaled by ten to the
\* exponent, in steps of 10^308 beyond the table; pow is the entry of the
\* table for the step
RECURSIVE ScaleByPow10(_, _)
DivStep(exponent, quotient) ==
    IF exponent >= 0 - 308 THEN [ok |-> TRUE, f |-> quotient]
    ELSE ScaleByPow10(quotient, exponent + 308)

ScaleStep(f, exponent, pow) ==
    IF exponent >= 0 /\ exponent <= 308 THEN MulChecked(Mul(f, pow))
    ELSE IF exponent > 308 THEN [ok |-> IsZero(f), f |-> f]
    ELSE IF exponent < 0 - 308 /\ IsZero(f) THEN [ok |-> TRUE, f |-> f]
    ELSE DivStep(exponent, Div(f, pow))

ScaleByPow10(f, exponent) ==
    ScaleStep(f, exponent,
              POW10(IF exponent > 308 \/ exponent < 0 - 308 THEN 308
                    ELSE IF exponent < 0 THEN 0 - exponent
                    ELSE exponent))

\* serde_json's f64_from_parts: significand as f64, scaled, then signed
Signed(positive, scaled) ==
    [ok |-> scaled.ok, f |-> IF positive THEN scaled.f ELSE Neg(scaled.f)]

F64FromParts(positive, significand, exponent) ==
    Signed(positive, ScaleByPow10(Round(FALSE, significand, 0, FALSE), exponent))

\* the f64 that serde_json reads the literal (-1)^neg * m / 10^e as, for
\* machine integers m and e
Decimal(neg, m, e) == F64FromParts(~neg, BigOfInt(m), 0 - e).f

\* a == b on Option<f64>
OptionEq(a, b) ==
    IF IsSome(a) /\ IsSome(b) THEN NumEq(a[1], b[1]) ELSE IsSome(a) = IsSome(b)

(***************************************************************************)
(* Keyboard::preprocess_raw_data                                           *)
(***************************************************************************)
\* line 74: the lines that are not empty
RECURSIVE NonEmptyLines(_)
NonEmptyLines(lines) ==
    IF Len(lines) = 0 THEN <<>>
    ELSE (IF Len(lines[1]) > 0 THEN <<lines[1]>> ELSE <<>>)
         \o NonEmptyLines(Tail(lines))

\* lines 71-75: split on line breaks, trim each line, drop the blank ones
SplitLines(raw) ==
    LET pieces == Split(raw, NL)
    IN NonEmptyLines([i \in 1..Len(pieces) |-> Trim(pieces[i])])

\* lines 78-82: one trailing comma is removed from each line
StripTrailingComma(line) ==
    IF Len(line) > 0 /\ line[Len(line)] = COMMA
    THEN SubSeq(line, 1, Len(line) - 1)
    ELSE line

\* mutant of JoinAndWrap: the lines are joined and not wrapped
JoinOnly(lines) == Join(lines, <<COMMA>>)

\* lines 85-92: the lines joined by commas inside one pair of brackets
JoinAndWrap(lines) == <<LBRACKET>> \o Join(lines, <<COMMA>>) \o <<RBRACKET>>

\* lines 95-99: the scanner's state before the first character; panic
\* tells that the pass has aborted
ScanInit ==
    [result |-> <<>>, in_string |-> FALSE, in_object |-> FALSE,
     last_char |-> None, property_name |-> <<>>, panic |-> FALSE]

\* mutant of ScanColon: the name is never quoted
ScanColonNoQuote(st, c) ==
    [st EXCEPT !.result = st.result \o <<c>>, !.property_name = <<>>]

\* lines 115-124: a colon inside an object and outside a string; line 117
\* cuts as many bytes off the result as the name takes
ScanColon(st, c) ==
    LET pn == st.property_name
        cut == TruncateBy(st.result, ByteLen(pn))
    IN IF Len(pn) > 0 /\ pn[1] # QUOTE
       THEN IF cut.panic THEN [st EXCEPT !.panic = TRUE]
            ELSE [st EXCEPT !.result = cut.text \o <<QUOTE>> \o pn \o <<QUOTE, c>>,
                            !.property_name = <<>>]
       ELSE [st EXCEPT !.result = st.result \o <<c>>, !.property_name = <<>>]

\* lines 129-140: any other character
ScanOther(st, c) ==
    LET inName == st.in_object /\ ~st.in_string
        cleared == IF inName /\ (st.last_char = None
                                 \/ st.last_char = Some(LBRACE)
                                 \/ st.last_char = Some(COMMA))
                   THEN <<>>
                   ELSE st.property_name
    IN [st EXCEPT !.property_name = IF inName THEN cleared \o <<c>> ELSE cleared,
                  !.result = st.result \o <<c>>]

\* mutant of ScanChar: a closing brace leaves the inside-object state as
\* it is
ScanCharKeepsObject(st, c) ==
    LET next ==
        IF c = QUOTE
        THEN [st EXCEPT !.in_string = ~st.in_string, !.result = st.result \o <<c>>]
        ELSE IF c = LBRACE /\ ~st.in_string
        THEN [st EXCEPT !.in_object = TRUE, !.result = st.result \o <<c>>]
        ELSE IF c = RBRACE /\ ~st.in_string
        THEN [st EXCEPT !.result = st.result \o <<c>>]
        ELSE IF c = COLON /\ st.in_object /\ ~st.in_string
        THEN ScanColon(st, c)
        ELSE IF c = COMMA /\ st.in_object /\ ~st.in_string
        THEN [st EXCEPT !.result = st.result \o <<c>>, !.property_name = <<>>]
        ELSE ScanOther(st, c)
    IN IF st.panic \/ next.panic THEN [st EXCEPT !.panic = TRUE]
       ELSE [next EXCEPT !.last_char = Some(c)]

\* lines 101-143: one character of the quoting pass; nothing is scanned
\* after a panic
ScanChar(st, c) ==
    LET next ==
        IF c = QUOTE
        THEN [st EXCEPT !.in_string = ~st.in_string, !.result = st.result \o <<c>>]
        ELSE IF c = LBRACE /\ ~st.in_string
        THEN [st EXCEPT !.in_object = TRUE, !.result = st.result \o <<c>>]
        ELSE IF c = RBRACE /\ ~st.in_string
        THEN [st EXCEPT !.in_object = FALSE, !.result = st.result \o <<c>>]
        ELSE IF c = COLON /\ st.in_object /\ ~st.in_string
        THEN ScanColon(st, c)
        ELSE IF c = COMMA /\ st.in_object /\ ~st.in_string
        THEN [st EXCEPT !.result = st.result \o <<c>>, !.property_name = <<>>]
        ELSE ScanOther(st, c)
    IN IF st.panic \/ next.panic THEN [st EXCEPT !.panic = TRUE]
       ELSE [next EXCEPT !.last_char = Some(c)]

\* lines 101-143: the characters lo..hi in order, by halves; reading
\* st.in_string first makes the state so far a value before the rest is
\* scanned, which keeps the evaluation shallow on long texts
RECURSIVE ScanRange(_, _, _, _)
ScanRange(st, s, lo, hi) ==
    IF lo > hi \/ st.in_string \notin BOOLEAN THEN st
    ELSE IF lo = hi THEN ScanChar(st, s[lo])
    ELSE LET mid == (lo + hi) \div 2
         IN ScanRange(ScanRange(st, s, lo, mid), s, mid + 1, hi)

\* lines 94-145: the quoting pass over the joined text: the text it
\* returns, or a panic
QuoteNames(processed) ==
    LET st == ScanRange(ScanInit, processed, 1, Len(processed))
    IN [panic |-> st.panic, text |-> st.result]

\* lines 69-146
PreprocessRawData(raw) ==
    LET lines == SplitLines(raw)
        stripped == [i \in 1..Len(lines) |-> StripTrailingComma(lines[i])]
    IN QuoteNames(JoinAndWrap(stripped))

\* lines 150-151: line endings normalised, the whole text trimmed
NormalizeInput(raw) == Trim(ReplaceCR(ReplaceCRLF(raw)))

(***************************************************************************)
(* serde_json::Value and serde_json::from_str                              *)
(*                                                                         *)
(* A Value is a record with the same fields whatever its kind: t names the *)
(* kind, s holds a string's characters, b a boolean, a the elements of an  *)
(* array or the members [k, v] of an object, and n a number.  A number is  *)
(* serde_json's N: a float with the f64 v, or an integer with the sign neg *)
(* and the magnitude int, a big number (PosInt holds a u64, NegInt an i64  *)
(* below 0).                                                               *)
(***************************************************************************)
\* the control characters U+0008 and U+000C
BS == 8
FF == 12

PosInt(u) == [float |-> FALSE, neg |-> FALSE, int |-> u, v |-> Zero(FALSE)]
NegInt(u) == [float |-> FALSE, neg |-> TRUE, int |-> u, v |-> Zero(FALSE)]
Float(v) == [float |-> TRUE, neg |-> FALSE, int |-> <<>>, v |-> v]

VNull ==
    [t |-> "null", s |-> <<>>, n |-> PosInt(<<>>), b |-> FALSE, a |-> <<>>]
VBool(b) == [VNull EXCEPT !.t = "bool", !.b = b]
VNum(n) == [VNull EXCEPT !.t = "num", !.n = n]
\* the Value of a machine integer and of an f64
VInt(i) == VNum(IF i < 0 THEN NegInt(BigOfInt(0 - i)) ELSE PosInt(BigOfInt(i)))
VFloat(v) == VNum(Float(v))

\* a Number read as f64: an integer is converted as `as f64` does
AsF64(n) == IF n.float THEN n.v ELSE Round(n.neg, n.int, 0, FALSE)

\* a Number read as u8: only an integer from 0 to 255 is one
IsU8(n) == ~n.float /\ ~n.neg /\ Len(n.int) <= 1 /\ Limb(n.int, 1) <= 255
AsU8(n) == Limb(n.int, 1)
VStr(s) == [VNull EXCEPT !.t = "str", !.s = s]
VArr(a) == [VNull EXCEPT !.t = "arr", !.a = a]
VObj(m) == [VNull EXCEPT !.t = "obj", !.a = m]

\* Value::is_object, Value::is_string, Value::as_array
IsObject(v) == v.t = "obj"
IsString(v) == v.t = "str"
IsArray(v) == v.t = "arr"

\* Map::insert: a repeated name keeps its place and takes the new value
PutMember(m, k, v) ==
    IF \E i \in 1..Len(m) : m[i].k = k
    THEN [i \in 1..Len(m) |-> IF m[i].k = k THEN [k |-> k, v |-> v] ELSE m[i]]
    ELSE Append(m, [k |-> k, v |-> v])

HasMember(obj, k) == \E i \in 1..Len(obj.a) : obj.a[i].k = k
Member(obj, k) == obj.a[CHOOSE i \in 1..Len(obj.a) : obj.a[i].k = k].v

ParseErr == [ok |-> FALSE, v |-> VNull, i |-> 0]
ParseOk(v, i) == [ok |-> TRUE, v |-> v, i |-> i]

\* the JSON whitespace
IsJsonSpace(c) == c \in {SPACE, TAB, NL, CR}

RECURSIVE SkipSpace(_, _)
SkipSpace(s, i) ==
    IF i <= Len(s) /\ IsJsonSpace(s[i]) THEN SkipSpace(s, i + 1) ELSE i

\* the value of a hexadecimal digit, -1 for any other character
HexVal(c) ==
    IF IsDigit(c) THEN DigitVal(c)
    ELSE IF c >= LOWER_A /\ c <= LOWER_F THEN c - LOWER_A + 10
    ELSE IF c >= UPPER_A /\ c <= UPPER_F THEN c - UPPER_A + 10
    ELSE 0 - 1

\* the number with the four hexadecimal digit values d, -1 when one of
\* them is no digit value
HexNumber(d) ==
    IF \E k \in 1..4 : d[k] < 0 THEN 0 - 1
    ELSE ((d[1] * 16 + d[2]) * 16 + d[3]) * 16 + d[4]

\* the value of the four hexadecimal digits from position i, -1 when they
\* are not four hexadecimal digits
Hex4(s, i) ==
    IF i + 3 > Len(s) THEN 0 - 1
    ELSE HexNumber([k \in 1..4 |-> HexVal(s[i + k - 1])])

EscapeErr == [ok |-> FALSE, c |-> 0, i |-> 0]
EscapeOk(c, i) == [ok |-> TRUE, c |-> c, i |-> i]

\* the escape \uXXXX whose digits, at position i, have the value n1: it
\* gives the character U+XXXX; a leading surrogate must be followed by the
\* escape of a trailing one, of value n2, and the pair gives one character;
\* a surrogate alone is refused
UnicodeEscape(i, n1, n2) ==
    IF n1 < 0 THEN EscapeErr
    ELSE IF n1 >= 56320 /\ n1 <= 57343 THEN EscapeErr
    ELSE IF n1 >= 55296 /\ n1 <= 56319
    THEN IF n2 >= 56320 /\ n2 <= 57343
         THEN EscapeOk(65536 + (n1 - 55296) * 1024 + (n2 - 56320), i + 10)
         ELSE EscapeErr
    ELSE EscapeOk(n1, i + 4)

\* an escape sequence, from the character after its backslash: the
\* character it stands for and the position after it
ParseEscape(s, i) ==
    IF i > Len(s) THEN EscapeErr
    ELSE IF s[i] \in {QUOTE, BSLASH, SLASH} THEN EscapeOk(s[i], i + 1)
    ELSE IF s[i] = LOWER_N THEN EscapeOk(NL, i + 1)
    ELSE IF s[i] = LOWER_R THEN EscapeOk(CR, i + 1)
    ELSE IF s[i] = LOWER_T THEN EscapeOk(TAB, i + 1)
    ELSE IF s[i] = LOWER_B THEN EscapeOk(BS, i + 1)
    ELSE IF s[i] = LOWER_F THEN EscapeOk(FF, i + 1)
    ELSE IF s[i] # LOWER_U THEN EscapeErr
    ELSE UnicodeEscape(i + 1, Hex4(s, i + 1),
                       IF i + 6 <= Len(s) /\ s[i + 5] = BSLASH /\ s[i + 6] = LOWER_U
                       THEN Hex4(s, i + 7)
                       ELSE 0 - 1)

\* the characters below U+0020, which a string literal must escape
IsControl(c) == c < 32

\* a string literal, from the character after its opening quote
RECURSIVE ParseString(_, _, _)
ParseString(s, i, acc) ==
    IF i > Len(s) THEN ParseErr
    ELSE IF s[i] = QUOTE THEN ParseOk(VStr(acc), i + 1)
    ELSE IF s[i] = BSLASH
    THEN LET e == ParseEscape(s, i + 1)
         IN IF e.ok THEN ParseString(s, e.i, Append(acc, e.c)) ELSE ParseErr
    ELSE IF IsControl(s[i]) THEN ParseErr
    ELSE ParseString(s, i + 1, Append(acc, s[i]))

\* whether position i of s holds one of the characters of set
At(s, i, set) == i <= Len(s) /\ s[i] \in set

\* the position after the run of characters of set that starts at i
RunEnd(s, i, set) ==
    CHOOSE j \in i..(Len(s) + 1) :
        /\ ~At(s, j, set)
        /\ \A k \in i..(j - 1) : s[k] \in set

DigitChars == DIGIT0..DIGIT9

\* serde_json's overflow!(significand * 10 + digit, u64::MAX)
OverflowsU64(significand, digit) ==
    BitLen(BigAdd(BigMulSmall(significand, 10), BigOfInt(digit))) > 64

\* the digits from position i are taken into the significand until the
\* next one would overflow a u64
RECURSIVE TakeDigits(_, _, _)
TakeDigits(s, i, significand) ==
    IF ~At(s, i, DigitChars) THEN [n |-> significand, i |-> i, overflow |-> FALSE]
    ELSE IF OverflowsU64(significand, DigitVal(s[i]))
    THEN [n |-> significand, i |-> i, overflow |-> TRUE]
    ELSE TakeDigits(s, i + 1,
                    BigAdd(BigMulSmall(significand, 10), BigOfInt(DigitVal(s[i]))))

\* the same from a significand of 0, which the zeros in front leave as it
\* is
TakeFraction(s, i, significand) ==
    IF Len(significand) = 0
    THEN TakeDigits(s, RunEnd(s, i, {DIGIT0}), significand)
    ELSE TakeDigits(s, i, significand)

\* what a literal read up to position i stands for: an integer with its
\* sign, or the parts of a float
IntegerParts(positive, significand, i) ==
    [ok |-> TRUE, float |-> FALSE, positive |-> positive,
     significand |-> significand, exponent |-> 0, i |-> i]
FloatParts(positive, significand, exponent, i) ==
    [ok |-> TRUE, float |-> TRUE, positive |-> positive,
     significand |-> significand, exponent |-> exponent, i |-> i]
NoParts ==
    [ok |-> FALSE, float |-> FALSE, positive |-> TRUE,
     significand |-> <<>>, exponent |-> 0, i |-> 0]

\* serde_json's f64_from_parts at the end of a literal, read up to
\* position i
FloatLiteral(parts, i) ==
    IF parts.ok THEN ParseOk(VFloat(parts.f), i) ELSE ParseErr

MaxI32 == 2147483647

\* serde_json's overflow!(exp * 10 + digit, i32::MAX)
OverflowsI32(exp, digit) ==
    exp >= MaxI32 \div 10 /\ (exp > MaxI32 \div 10 \/ digit > MaxI32 % 10)

\* the digits of an exponent from position i are taken into exp until the
\* next one would overflow an i32
RECURSIVE TakeExponent(_, _, _)
TakeExponent(s, i, exp) ==
    IF ~At(s, i, DigitChars) THEN [n |-> exp, overflow |-> FALSE]
    ELSE IF OverflowsI32(exp, DigitVal(s[i])) THEN [n |-> exp, overflow |-> TRUE]
    ELSE TakeExponent(s, i + 1, exp * 10 + DigitVal(s[i]))

\* i32::saturating_add and i32::saturating_sub of starting_exp and an exp
\* that is not negative
SaturatingAdd(starting_exp, exp) ==
    IF starting_exp > 0 /\ exp > MaxI32 - starting_exp THEN MaxI32
    ELSE starting_exp + exp
SaturatingSub(starting_exp, exp) ==
    IF starting_exp < 0 /\ exp > starting_exp + MaxI32 + 1 THEN 0 - MaxI32 - 1
    ELSE starting_exp - exp

\* serde_json's parse_exponent_overflow: an exponent beyond i32 is
\* refused unless the number is 0 or tiny, which is read as 0
ExponentOverflow(positive, significand, positive_exp, i) ==
    IF Len(significand) > 0 /\ positive_exp THEN NoParts
    ELSE FloatParts(positive, <<>>, 0, i)

\* serde_json's parse_exponent, from its first digit at position j: the
\* zeros in front leave an exp of 0 as it is
ExponentDigits(s, j, positive, significand, starting_exp, positive_exp, exp) ==
    IF exp.overflow
    THEN ExponentOverflow(positive, significand, positive_exp,
                          RunEnd(s, j, DigitChars))
    ELSE FloatParts(positive, significand,
                    IF positive_exp
                    THEN SaturatingAdd(starting_exp, exp.n)
                    ELSE SaturatingSub(starting_exp, exp.n),
                    RunEnd(s, j, DigitChars))

\* serde_json's parse_exponent, from the character after the e or E at
\* position j - 1 or, behind a sign, j - 2
ExponentFrom(s, j, positive, significand, starting_exp, positive_exp) ==
    IF ~At(s, j, DigitChars) THEN NoParts
    ELSE ExponentDigits(s, j, positive, significand, starting_exp, positive_exp,
                        TakeExponent(s, RunEnd(s, j, {DIGIT0}), 0))

\* serde_json's parse_exponent, at the e or E at position i
ParseExponent(s, i, positive, significand, starting_exp) ==
    IF At(s, i + 1, {PLUS})
    THEN ExponentFrom(s, i + 2, positive, significand, starting_exp, TRUE)
    ELSE IF At(s, i + 1, {MINUS})
    THEN ExponentFrom(s, i + 2, positive, significand, starting_exp, FALSE)
    ELSE ExponentFrom(s, i + 1, positive, significand, starting_exp, TRUE)

\* the end of the digits of a literal at position i, with the exponent
\* that the digits read so far stand for
AfterDigits(s, i, positive, significand, exponent) ==
    IF At(s, i, {LOWER_E, UPPER_E})
    THEN ParseExponent(s, i, positive, significand, exponent)
    ELSE FloatParts(positive, significand, exponent, i)

\* serde_json's parse_decimal, at the point at position i, with the
\* fraction digits taken: one digit at least; the digits beyond a u64 are
\* skipped (parse_decimal_overflow)
DecimalDigits(s, i, positive, exponent_before, taken) ==
    IF taken.i = i + 1 /\ ~taken.overflow THEN NoParts
    ELSE AfterDigits(s, RunEnd(s, taken.i, DigitChars), positive, taken.n,
                     exponent_before - (taken.i - i - 1))

ParseDecimal(s, i, positive, significand, exponent_before) ==
    DecimalDigits(s, i, positive, exponent_before,
                  TakeFraction(s, i + 1, significand))

\* serde_json's parse_long_integer: every digit beyond a u64, up to
\* position j, counts for the exponent
LongInteger(s, j, positive, significand, exponent) ==
    IF At(s, j, {DOT}) THEN ParseDecimal(s, j, positive, significand, exponent)
    ELSE AfterDigits(s, j, positive, significand, exponent)

\* serde_json's parse_number behind an integer read up to position i: a
\* fraction or an exponent makes a float; so does -0, and a negative
\* integer below i64::MIN, read as -(significand as f64)
ParseNumberTail(s, i, positive, significand) ==
    IF At(s, i, {DOT}) THEN ParseDecimal(s, i, positive, significand, 0)
    ELSE IF At(s, i, {LOWER_E, UPPER_E})
    THEN ParseExponent(s, i, positive, significand, 0)
    ELSE IF positive THEN IntegerParts(TRUE, significand, i)
    ELSE IF Len(significand) = 0 \/ BigCmp(significand, BigShl(<<1>>, 63)) > 0
    THEN FloatParts(FALSE, significand, 0, i)
    ELSE IntegerParts(FALSE, significand, i)

\* serde_json's parse_integer, with the digits from position i taken
IntegerDigits(s, i, positive, taken) ==
    IF taken.overflow
    THEN LongInteger(s, RunEnd(s, taken.i, DigitChars), positive, taken.n,
                     RunEnd(s, taken.i, DigitChars) - taken.i)
    ELSE ParseNumberTail(s, taken.i, positive, taken.n)

\* serde_json's parse_integer, at the first digit: a 0 stands alone
ParseInteger(s, i, positive) ==
    IF ~At(s, i, DigitChars) THEN NoParts
    ELSE IF s[i] = DIGIT0
    THEN IF At(s, i + 1, DigitChars) THEN NoParts
         ELSE ParseNumberTail(s, i + 1, positive, <<>>)
    ELSE IntegerDigits(s, i, positive, TakeDigits(s, i, <<>>))

\* the Number of a literal: ParserNumber::F64 of f64_from_parts for a
\* float, U64 or I64 for an integer
NumberOf(parts) ==
    IF ~parts.ok THEN ParseErr
    ELSE IF parts.float
    THEN FloatLiteral(F64FromParts(parts.positive, parts.significand,
                                   parts.exponent),
                      parts.i)
    ELSE IF parts.positive THEN ParseOk(VNum(PosInt(parts.significand)), parts.i)
    ELSE ParseOk(VNum(NegInt(parts.significand)), parts.i)

\* a number: -?(0|[1-9][0-9]*)(\.[0-9]+)?([eE][+-]?[0-9]+)?
ParseNumber(s, i) ==
    NumberOf(ParseInteger(s, IF s[i] = MINUS THEN i + 1 ELSE i, s[i] # MINUS))

ParseLiteral(s, i, word, v) ==
    IF i + Len(word) - 1 <= Len(s) /\ SubSeq(s, i, i + Len(word) - 1) = word
    THEN ParseOk(v, i + Len(word))
    ELSE ParseErr

\* the words of JSON
Words ==
    CharsOfEach([true |-> <<"t", "r", "u", "e">>,
                false |-> <<"f", "a", "l", "s", "e">>,
                null |-> <<"n", "u", "l", "l">>])

\* serde_json's Deserializer::remaining_depth: the arrays and objects that
\* may still be entered
RecursionLimit == 128

RECURSIVE ParseValue(_, _, _)
RECURSIVE ParseElems(_, _, _, _)
RECURSIVE ParseMembers(_, _, _, _)

\* the elements of an array after its first character, up to its "]"
ParseElems(s, i, acc, depth) ==
    LET r == ParseValue(s, i, depth)
        j == SkipSpace(s, r.i)
    IN IF ~r.ok \/ j > Len(s) THEN ParseErr
       ELSE IF s[j] = COMMA THEN ParseElems(s, j + 1, Append(acc, r.v), depth)
       ELSE IF s[j] = RBRACKET THEN ParseOk(VArr(Append(acc, r.v)), j + 1)
       ELSE ParseErr

\* the members of an object, up to its "}"
ParseMembers(s, i, acc, depth) ==
    LET j == SkipSpace(s, i)
    IN IF j > Len(s) \/ s[j] # QUOTE THEN ParseErr
       ELSE LET k == ParseString(s, j + 1, <<>>)
                c == SkipSpace(s, k.i)
            IN IF ~k.ok \/ c > Len(s) \/ s[c] # COLON THEN ParseErr
               ELSE LET r == ParseValue(s, c + 1, depth)
                        e == SkipSpace(s, r.i)
                    IN IF ~r.ok \/ e > Len(s) THEN ParseErr
                       ELSE IF s[e] = COMMA
                       THEN ParseMembers(s, e + 1, PutMember(acc, k.v.s, r.v), depth)
                       ELSE IF s[e] = RBRACE
                       THEN ParseOk(VObj(PutMember(acc, k.v.s, r.v)), e + 1)
                       ELSE ParseErr

\* one JSON value starting at or after position i, where depth more arrays
\* and objects may be entered: entering one takes one off, and none is
\* entered once that leaves zero
ParseValue(s, i, depth) ==
    LET j == SkipSpace(s, i)
    IN IF j > Len(s) THEN ParseErr
       ELSE IF s[j] = LBRACKET
       THEN LET e == SkipSpace(s, j + 1)
            IN IF depth - 1 = 0 THEN ParseErr
               ELSE IF e <= Len(s) /\ s[e] = RBRACKET THEN ParseOk(VArr(<<>>), e + 1)
               ELSE ParseElems(s, j + 1, <<>>, depth - 1)
       ELSE IF s[j] = LBRACE
       THEN LET e == SkipSpace(s, j + 1)
            IN IF depth - 1 = 0 THEN ParseErr
               ELSE IF e <= Len(s) /\ s[e] = RBRACE THEN ParseOk(VObj(<<>>), e + 1)
               ELSE ParseMembers(s, j + 1, <<>>, depth - 1)
       ELSE IF s[j] = QUOTE THEN ParseString(s, j + 1, <<>>)
       ELSE IF s[j] = MINUS \/ IsDigit(s[j]) THEN ParseNumber(s, j)
       ELSE IF s[j] = LOWER_T THEN ParseLiteral(s, j, Words.true, VBool(TRUE))
       ELSE IF s[j] = LOWER_F THEN ParseLiteral(s, j, Words.false, VBool(FALSE))
       ELSE IF s[j] = LOWER_N THEN ParseLiteral(s, j, Words.null, VNull)
       ELSE ParseErr

\* the value r read from the start of s is one array and nothing comes
\* after it
WholeArray(s, r) ==
    IF r.ok /\ IsArray(r.v) /\ SkipSpace(s, r.i) > Len(s)
    THEN [ok |-> TRUE, data |-> r.v.a]
    ELSE [ok |-> FALSE, data |-> <<>>]

\* serde_json::from_str::<Vec<Value>>
FromStr(s) == WholeArray(s, ParseValue(s, 1, RecursionLimit))

(***************************************************************************)
(* KeyProperties, KeyboardMetadata and their decoding from a Value         *)
(***************************************************************************)
\* lines 25-52: the name of each field in a patch object
FieldChars ==
    CharsOfEach([x |-> <<"x">>,
                y |-> <<"y">>,
                w |-> <<"w">>,
                h |-> <<"h">>,
                x2 |-> <<"x", "2">>,
                y2 |-> <<"y", "2">>,
                w2 |-> <<"w", "2">>,
                h2 |-> <<"h", "2">>,
                l |-> <<"l">>,
                n |-> <<"n">>,
                d |-> <<"d">>,
                r |-> <<"r">>,
                rx |-> <<"r", "x">>,
                ry |-> <<"r", "y">>,
                c |-> <<"c">>,
                t |-> <<"t">>,
                g |-> <<"g">>,
                a |-> <<"a">>,
                f |-> <<"f">>,
                f2 |-> <<"f", "2">>,
                p |-> <<"p">>])

\* lines 6-16: the name of each field in the metadata object
MetadataFieldChars ==
    CharsOfEach([author |-> <<"a", "u", "t", "h", "o", "r">>,
                backcolor |-> <<"b", "a", "c", "k", "c", "o", "l", "o", "r">>,
                background |-> <<"b", "a", "c", "k", "g", "r", "o", "u", "n", "d">>,
                name |-> <<"n", "a", "m", "e">>,
                notes |-> <<"n", "o", "t", "e", "s">>,
                radii |-> <<"r", "a", "d", "i", "i">>,
                switch_brand |-> <<"s", "w", "i", "t", "c", "h", "_", "b", "r", "a", "n", "d">>,
                switch_mount |-> <<"s", "w", "i", "t", "c", "h", "_", "m", "o", "u", "n", "t">>,
                switch_type |-> <<"s", "w", "i", "t", "c", "h", "_", "t", "y", "p", "e">>])

\* lines 19-22: the name of each field in the background object
BackgroundFieldChars ==
    CharsOfEach([name |-> <<"n", "a", "m", "e">>,
                style |-> <<"s", "t", "y", "l", "e">>])

\* lines 24-52: KeyProperties::default()
DefaultProperties ==
    [x |-> None, y |-> None, w |-> None, h |-> None,
     x2 |-> None, y2 |-> None, w2 |-> None, h2 |-> None,
     l |-> None, n |-> None, d |-> None,
     r |-> None, rx |-> None, ry |-> None,
     c |-> None, t |-> None, g |-> None, a |-> None,
     f |-> None, f2 |-> None, p |-> None]

\* lines 26-42 and 44-51: the two lifetime classes of the fields
TransientFields ==
    {"x", "y", "w", "h", "x2", "y2", "w2", "h2", "l", "n", "d", "r", "rx", "ry"}
PersistentFields == {"c", "t", "g", "a", "f", "f2", "p"}

DecodeErr == [ok |-> FALSE, v |-> None]
DecodeOk(v) == [ok |-> TRUE, v |-> v]

\* an Option<f64>, Option<bool>, Option<u8> or Option<String> field of a
\* derived Deserialize: a missing member and null give None, a value of
\* the field's type gives Some, any other value is an error.  Every number
\* is an f64; only an integer from 0 to 255 is a u8, no float
OptionField(obj, k, kind) ==
    IF ~HasMember(obj, k) THEN DecodeOk(None)
    ELSE LET m == Member(obj, k)
         IN IF m.t = "null" THEN DecodeOk(None)
            ELSE IF kind = "f64" /\ m.t = "num" THEN DecodeOk(Some(AsF64(m.n)))
            ELSE IF kind = "bool" /\ m.t = "bool" THEN DecodeOk(Some(m.b))
            ELSE IF kind = "u8" /\ m.t = "num" /\ IsU8(m.n)
            THEN DecodeOk(Some(AsU8(m.n)))
            ELSE IF kind = "string" /\ m.t = "str" THEN DecodeOk(Some(m.s))
            ELSE DecodeErr

\* lines 25-51: the type inside the Option of each field
FieldKinds ==
    [x |-> "f64", y |-> "f64", w |-> "f64", h |-> "f64",
     x2 |-> "f64", y2 |-> "f64", w2 |-> "f64", h2 |-> "f64",
     l |-> "bool", n |-> "bool", d |-> "bool", r |-> "f64",
     rx |-> "f64", ry |-> "f64", c |-> "string", t |-> "string",
     g |-> "bool", a |-> "u8", f |-> "u8", f2 |-> "u8",
     p |-> "string"]

\* line 178, the derived Deserialize: each field of the struct decoded
\* from obj
KeyFields(obj) ==
    [f \in DOMAIN FieldKinds |-> OptionField(obj, FieldChars[f], FieldKinds[f])]

\* line 178, the derived Deserialize: the struct of the decoded fields d,
\* or an error when one of them is an error
KeyPropertiesOf(d) ==
    IF \A f \in DOMAIN d : d[f].ok
    THEN DecodeOk([x |-> d["x"].v, y |-> d["y"].v, w |-> d["w"].v,
                   h |-> d["h"].v, x2 |-> d["x2"].v, y2 |-> d["y2"].v,
                   w2 |-> d["w2"].v, h2 |-> d["h2"].v, l |-> d["l"].v,
                   n |-> d["n"].v, d |-> d["d"].v, r |-> d["r"].v,
                   rx |-> d["rx"].v, ry |-> d["ry"].v, c |-> d["c"].v,
                   t |-> d["t"].v, g |-> d["g"].v, a |-> d["a"].v,
                   f |-> d["f"].v, f2 |-> d["f2"].v, p |-> d["p"].v])
    ELSE DecodeErr

\* line 178: serde_json::from_value::<KeyProperties>
KeyPropertiesFromValue(obj) == KeyPropertiesOf(KeyFields(obj))

\* lines 18-22: Background, from an object with both names or from an
\* array of the two strings
BackgroundFromValue(v) ==
    IF v.t = "obj"
    THEN IF /\ HasMember(v, BackgroundFieldChars.name)
            /\ HasMember(v, BackgroundFieldChars.style)
            /\ Member(v, BackgroundFieldChars.name).t = "str"
            /\ Member(v, BackgroundFieldChars.style).t = "str"
         THEN DecodeOk([name |-> Member(v, BackgroundFieldChars.name).s,
                        style |-> Member(v, BackgroundFieldChars.style).s])
         ELSE DecodeErr
    ELSE IF v.t = "arr" /\ Len(v.a) = 2 /\ v.a[1].t = "str" /\ v.a[2].t = "str"
    THEN DecodeOk([name |-> v.a[1].s, style |-> v.a[2].s])
    ELSE DecodeErr

\* line 9: the Option<Background> field
BackgroundField(obj) ==
    LET k == MetadataFieldChars.background
    IN IF ~HasMember(obj, k) \/ Member(obj, k).t = "null" THEN DecodeOk(None)
       ELSE LET b == BackgroundFromValue(Member(obj, k))
            IN IF b.ok THEN DecodeOk(Some(b.v)) ELSE DecodeErr

\* line 161, the derived Deserialize: each field of the struct decoded
\* from obj; every field but background is an Option<String>
MetadataFields(obj) ==
    [f \in DOMAIN MetadataFieldChars |->
        IF f = "background" THEN BackgroundField(obj)
        ELSE OptionField(obj, MetadataFieldChars[f], "string")]

\* line 161, the derived Deserialize: the struct of the decoded fields d,
\* or an error when one of them is an error
MetadataOf(d) ==
    IF \A f \in DOMAIN d : d[f].ok
    THEN DecodeOk([author |-> d["author"].v, backcolor |-> d["backcolor"].v,
                   background |-> d["background"].v, name |-> d["name"].v,
                   notes |-> d["notes"].v, radii |-> d["radii"].v,
                   switch_brand |-> d["switch_brand"].v, switch_mount |-> d["switch_mount"].v,
                   switch_type |-> d["switch_type"].v])
    ELSE DecodeErr

\* line 161: serde_json::from_value::<KeyboardMetadata>
MetadataFromValue(obj) == MetadataOf(MetadataFields(obj))

(***************************************************************************)
(* Keyboard::parse: the layout interpreter                                 *)
(*                                                                         *)
(* The interpreter's state is the record [status, keys, current_x,         *)
(* current_y, current_properties]; status is "run" while the loops run,    *)
(* "err" once a decode error is returned and "panic" once an unwrap fails. *)
(***************************************************************************)
\* lines 166-168
InterpInit ==
    [status |-> "run", keys |-> <<>>, current_x |-> F64(0), current_y |-> F64(0),
     current_properties |-> DefaultProperties]

\* mutant of UpdatePersistent: c is copied even when the patch omits it
UpdatePersistentOverwritesColor(cp, props) ==
    [cp EXCEPT
        !.c = props.c,
        !.t = IF IsSome(props.t) THEN props.t ELSE @,
        !.g = IF IsSome(props.g) THEN props.g ELSE @,
        !.a = IF IsSome(props.a) THEN props.a ELSE @,
        !.f = IF IsSome(props.f) THEN props.f ELSE @,
        !.f2 = IF IsSome(props.f2) THEN props.f2 ELSE @,
        !.p = IF IsSome(props.p) THEN props.p ELSE @]

\* lines 180-201: a persistent field is copied only when the patch sets it
UpdatePersistent(cp, props) ==
    [cp EXCEPT
        !.c = IF IsSome(props.c) THEN props.c ELSE @,
        !.t = IF IsSome(props.t) THEN props.t ELSE @,
        !.g = IF IsSome(props.g) THEN props.g ELSE @,
        !.a = IF IsSome(props.a) THEN props.a ELSE @,
        !.f = IF IsSome(props.f) THEN props.f ELSE @,
        !.f2 = IF IsSome(props.f2) THEN props.f2 ELSE @,
        !.p = IF IsSome(props.p) THEN props.p ELSE @]

\* mutant of StoreTransient: a transient field that the patch omits keeps
\* the value of an earlier patch
StoreTransientKeepsOmitted(cp, props) ==
    [f \in DOMAIN cp |->
        IF f \in TransientFields /\ IsSome(props[f]) THEN props[f] ELSE cp[f]]

\* lines 203-217: every transient field takes the patch's value
StoreTransient(cp, props) ==
    [cp EXCEPT
        !.x = props.x,
        !.y = props.y,
        !.w = props.w,
        !.h = props.h,
        !.x2 = props.x2,
        !.y2 = props.y2,
        !.w2 = props.w2,
        !.h2 = props.h2,
        !.l = props.l,
        !.n = props.n,
        !.d = props.d,
        !.r = props.r,
        !.rx = props.rx,
        !.ry = props.ry]

\* mutant of ResetTransient: w and h are left as they are
ResetTransientKeepsSize(cp) ==
    [cp EXCEPT
        !.x = None,
        !.y = None,
        !.x2 = None,
        !.y2 = None,
        !.w2 = None,
        !.h2 = None,
        !.l = None,
        !.n = None,
        !.d = None,
        !.r = None,
        !.rx = None,
        !.ry = None]

\* lines 254-268: every transient field is unset
ResetTransient(cp) ==
    [cp EXCEPT
        !.x = None,
        !.y = None,
        !.w = None,
        !.h = None,
        !.x2 = None,
        !.y2 = None,
        !.w2 = None,
        !.h2 = None,
        !.l = None,
        !.n = None,
        !.d = None,
        !.r = None,
        !.rx = None,
        !.ry = None]

\* lines 232-234: the key is rotated
IsRotated(cp) == IsSome(cp.r) \/ IsSome(cp.rx) \/ IsSome(cp.ry)

\* mutant of ResolvePosition: a rotated key is placed like any other
ResolvePositionRelative(cp, current_x, current_y) ==
    [x |-> Add(current_x, UnwrapOr(cp.x, F64(0))),
     y |-> Add(current_y, UnwrapOr(cp.y, F64(0)))]

\* lines 227-242: the resolved coordinates of the key being placed
ResolvePosition(cp, current_x, current_y) ==
    IF IsRotated(cp)
    THEN [x |-> UnwrapOr(cp.x, F64(0)), y |-> UnwrapOr(cp.y, F64(0))]
    ELSE [x |-> Add(current_x, UnwrapOr(cp.x, F64(0))),
          y |-> Add(current_y, UnwrapOr(cp.y, F64(0)))]

\* lines 220-225: the legend list of a legend string
SplitLegend(str) == Split(str, NL)

\* mutant of AdvanceX: every key advances the column by one
AdvanceXUnitWidth(x, cp) == Add(x, F64(1))

\* line 252: the column after the key
AdvanceX(x, cp) == Add(x, UnwrapOr(cp.w, F64(1)))

\* lines 178-217: the decoding d of a patch object ends parse with its
\* error, or is merged into the current properties
ApplyPatch(st, d) ==
    IF ~d.ok THEN [st EXCEPT !.status = "err"]
    ELSE [st EXCEPT !.current_properties =
                        StoreTransient(UpdatePersistent(@, d.v), d.v)]

\* lines 176-217: a patch object
PatchStep(st, item) == ApplyPatch(st, KeyPropertiesFromValue(item))

\* lines 244-269: the key is pushed at the position pos with a copy cp of
\* the current properties, the column advances, the transient fields are
\* cleared
PlaceKey(st, item, cp, pos) ==
    [st EXCEPT !.keys = Append(@, [legends |-> SplitLegend(item.s),
                                   properties |-> cp,
                                   x |-> pos.x, y |-> pos.y]),
               !.current_x = AdvanceX(pos.x, cp),
               !.current_properties = ResetTransient(cp)]

\* lines 218-269: a legend string
LegendStep(st, item) ==
    PlaceKey(st, item, st.current_properties,
             ResolvePosition(st.current_properties, st.current_x, st.current_y))

\* mutant of ItemStep: an item that is neither object nor string clears
\* the pending transient fields
ItemStepOtherClears(st, item) ==
    IF IsObject(item) THEN PatchStep(st, item)
    ELSE IF IsString(item) THEN LegendStep(st, item)
    ELSE [st EXCEPT !.current_properties = ResetTransient(@)]

\* lines 175-270: one item of a row
ItemStep(st, item) ==
    IF IsObject(item) THEN PatchStep(st, item)
    ELSE IF IsString(item) THEN LegendStep(st, item)
    ELSE st

\* lines 172-173: a row begins; a row that is no array fails the unwrap
BeginRow(st, row) ==
    IF IsArray(row) THEN [st EXCEPT !.current_x = F64(0)]
    ELSE [st EXCEPT !.status = "panic"]

\* mutant of FinishRow: a row that placed no key is not counted
FinishRowUnlessEmpty(st) ==
    IF st.current_x = F64(0) THEN st ELSE [st EXCEPT !.current_y = Add(@, F64(1))]

\* line 271: a row ends
FinishRow(st) == [st EXCEPT !.current_y = Add(@, F64(1))]

RECURSIVE InterpretItems(_, _, _)
InterpretItems(st, items, i) ==
    IF i > Len(items) \/ st.status # "run" THEN st
    ELSE InterpretItems(ItemStep(st, items[i]), items, i + 1)

\* lines 175-271: the row that has begun goes through its items, and
\* ends when none of them has ended parse
RowItems(begun, row) ==
    IF begun.status # "run" THEN begun
    ELSE InterpretItems(begun, row.a, 1)
RowEnd(done) == IF done.status # "run" THEN done ELSE FinishRow(done)

\* lines 171-272: one row
InterpretRow(st, row) == RowEnd(RowItems(BeginRow(st, row), row))

RECURSIVE InterpretRows(_, _, _)
InterpretRows(st, rows, i) ==
    IF i > Len(rows) \/ st.status # "run" THEN st
    ELSE InterpretRows(InterpretRow(st, rows[i]), rows, i + 1)

\* lines 161-163: the decoding m of the leading object is the metadata,
\* the rest of data the rows
WithMetadata(m, data) ==
    [ok |-> m.ok, metadata |-> IF m.ok THEN Some(m.v) ELSE None,
     rows |-> Tail(data)]

\* lines 158-164: the leading object, if any, is the metadata
ExtractMetadata(data) ==
    IF Len(data) > 0 /\ IsObject(data[1])
    THEN WithMetadata(MetadataFromValue(data[1]), data)
    ELSE [ok |-> TRUE, metadata |-> None, rows |-> data]

\* what parse gives back: Ok(Keyboard), Err(decode error), or a panic
ParseFailed(outcome) == [outcome |-> outcome, metadata |-> None, keys |-> <<>>]
ParseDone(metadata, st) ==
    IF st.status = "run"
    THEN [outcome |-> "ok", metadata |-> metadata, keys |-> st.keys]
    ELSE ParseFailed(st.status)

\* lines 158-274: the rows are interpreted unless the metadata ex has not
\* decoded
ParseRows(ex) ==
    IF ~ex.ok THEN ParseFailed("err")
    ELSE ParseDone(ex.metadata, InterpretRows(InterpInit, ex.rows, 1))

\* lines 156-274: the metadata is taken from the data unless the text has
\* not decoded into dec
ParseDecoded(dec) ==
    IF ~dec.ok THEN ParseFailed("err") ELSE ParseRows(ExtractMetadata(dec.data))

\* lines 156-274: decoding and interpreting the preprocessed text
ParseProcessed(processed_data) == ParseDecoded(FromStr(processed_data))

\* lines 150-274: a panic of the preprocessing is a panic of parse
ParsePreprocessed(processed_data) ==
    IF processed_data.panic THEN ParseFailed("panic")
    ELSE ParseProcessed(processed_data.text)

\* lines 148-275
Parse(raw_data) == ParsePreprocessed(PreprocessRawData(NormalizeInput(raw_data)))

(***************************************************************************)
(* Keyboard::to_raw_format: the layout serializer                          *)
(***************************************************************************)
(***************************************************************************)
(* Display for f64: the shortest digits that read back as the same f64     *)
(* (core::num::flt2dec, strategy dragon), written without an exponent.     *)
(***************************************************************************)
\* flt2dec::round_up: the digits plus one in the last place; all nines
\* become a one and zeros, one digit longer
RECURSIVE RoundUpDigits(_, _, _)
RoundUpDigits(digits, i, k) ==
    IF i = 0
    THEN [digits |-> <<1>> \o [j \in 1..Len(digits) |-> 0], k |-> k + 1]
    ELSE IF digits[i] = 9 THEN RoundUpDigits(digits, i - 1, k)
    ELSE [digits |-> SubSeq(digits, 1, i - 1) \o <<digits[i] + 1>>
                     \o [j \in 1..(Len(digits) - i) |-> 0],
          k |-> k]

\* a comparison result c read as "below", or "not above" when inclusive
Within(c, inclusive) == c < 0 \/ (inclusive /\ c = 0)

\* format_shortest, the digit loop: v = 0.digits * 10^k + mant / scale in
\* the place of the next digit; minus and plus are the distances to the
\* ends of the range of the numbers that read back as v
RECURSIVE GenDigits(_, _, _, _, _, _, _)
\* the end of the loop: down and up tell that the digits so far, and the
\* digits so far with the last one raised, are within the range
GenDigit(mant, minus, plus, scale, inclusive, digits, k, down, up) ==
    IF ~down /\ ~up
    THEN GenDigits(BigMulSmall(mant, 10), BigMulSmall(minus, 10),
                   BigMulSmall(plus, 10), scale, inclusive, digits, k)
    ELSE IF up /\ (~down \/ BigCmp(BigAdd(mant, mant), scale) >= 0)
    THEN RoundUpDigits(digits, Len(digits), k)
    ELSE [digits |-> digits, k |-> k]

\* the digit st.d is produced and st.mant is left of mant
NextDigit(st, minus, plus, scale, inclusive, digits, k) ==
    GenDigit(st.mant, minus, plus, scale, inclusive, Append(digits, st.d), k,
             Within(BigCmp(st.mant, minus), inclusive),
             Within(BigCmp(scale, BigAdd(st.mant, plus)), inclusive))

\* if mant >= scaleN { mant -= scaleN; d += N }
TakeScale(st, scaled, n) ==
    IF BigCmp(st.mant, scaled) >= 0
    THEN [mant |-> BigSub(st.mant, scaled), d |-> st.d + n]
    ELSE st

\* d = mant / scale and mant % scale, for mant below 10 * scale: scale
\* times 8, 4, 2 and 1 are taken off in turn
DigitOf(mant, scale) ==
    TakeScale(TakeScale(TakeScale(TakeScale([mant |-> mant, d |-> 0],
                                            BigShl(scale, 3), 8),
                                  BigShl(scale, 2), 4),
                        BigShl(scale, 1), 2),
              scale, 1)

GenDigits(mant, minus, plus, scale, inclusive, digits, k) ==
    NextDigit(DigitOf(mant, scale), minus, plus, scale, inclusive, digits, k)

\* format_shortest, the scaling: k is made the least with high = v + plus
\* not above 10^k, or below it when inclusive
RECURSIVE FixScale(_, _, _, _, _, _)
\* mant10, minus10 and plus10 are ten times mant, minus and plus
FixScaleDown(mant10, minus10, plus10, scale, inclusive, k) ==
    IF Within(BigCmp(BigAdd(mant10, plus10), scale), ~inclusive)
    THEN FixScale(mant10, minus10, plus10, scale, inclusive, k - 1)
    ELSE GenDigits(mant10, minus10, plus10, scale, inclusive, <<>>, k)

FixScale(mant, minus, plus, scale, inclusive, k) ==
    IF ~Within(BigCmp(BigAdd(mant, plus), scale), ~inclusive)
    THEN FixScale(mant, minus, plus, BigMulSmall(scale, 10), inclusive, k + 1)
    ELSE FixScaleDown(BigMulSmall(mant, 10), BigMulSmall(minus, 10),
                      BigMulSmall(plus, 10), scale, inclusive, k)

\* format_shortest, the estimate: v, minus and plus over scale are
\* divided by 10^k for k near the number of decimal digits of v; pow is
\* 10^|k|
EstimateBy(mant, minus, plus, scale, inclusive, k, pow) ==
    FixScale(IF k >= 0 THEN mant ELSE BigMul(mant, pow),
             IF k >= 0 THEN minus ELSE BigMul(minus, pow),
             IF k >= 0 THEN plus ELSE BigMul(plus, pow),
             IF k >= 0 THEN BigMul(scale, pow) ELSE scale,
             inclusive, k)

Estimate(mant, minus, plus, scale, inclusive, k) ==
    EstimateBy(mant, minus, plus, scale, inclusive, k,
               BigPow10(IF k >= 0 THEN k ELSE 0 - k))

\* flt2dec::decode: v = a.m * 2^a.q and the distances minus and plus to
\* the ends of its range, in units of 2^(e - 2) for e the exponent of the
\* last digit of v: half of 2^e each way, a quarter downwards when the
\* significand of a normal v is the least one; the ends belong to the
\* range when the significand is even
Decode(a, e) ==
    Estimate(BigShl(a.m, a.q - e + 2 + Max(e - 2, 0)),
             BigShl(IF a.m = <<1>> /\ a.q >= 0 - 1022 THEN <<1>> ELSE <<2>>,
                    Max(e - 2, 0)),
             BigShl(<<2>>, Max(e - 2, 0)),
             BigShl(<<1>>, Max(2 - e, 0)),
             a.q > e,
             ((BitLen(a.m) + a.q) * 1233) \div 4096)

\* the shortest digits of a finite a that is not zero: a = 0.digits * 10^k
ShortestDigits(a) == Decode(a, UlpExponent(a.m, a.q))

\* flt2dec::digits_to_dec_str: 0.digits * 10^k written without exponent
DigitsToDecStr(digits, k) ==
    IF k <= 0
    THEN <<DIGIT0, DOT>> \o [i \in 1..(0 - k) |-> DIGIT0]
         \o [i \in 1..Len(digits) |-> DIGIT0 + digits[i]]
    ELSE IF k < Len(digits)
    THEN [i \in 1..k |-> DIGIT0 + digits[i]] \o <<DOT>>
         \o [i \in 1..(Len(digits) - k) |-> DIGIT0 + digits[k + i]]
    ELSE [i \in 1..Len(digits) |-> DIGIT0 + digits[i]]
         \o [i \in 1..(k - Len(digits)) |-> DIGIT0]

\* the digits and k of ShortestDigits written out
ShortestStr(shortest) == DigitsToDecStr(shortest.digits, shortest.k)

\* format!("{}", f64): NaN, inf, or the sign and the shortest digits
FormatNumber(v) ==
    IF v.kind = "nan" THEN <<UPPER_N, LOWER_A, UPPER_N>>
    ELSE (IF v.neg THEN <<MINUS>> ELSE <<>>)
         \o (IF v.kind = "inf" THEN <<LOWER_I, LOWER_N, LOWER_F>>
             ELSE IF IsZero(v) THEN <<DIGIT0>>
             ELSE ShortestStr(ShortestDigits(v)))

\* format!("r:{}", r) and the like
Part(name, v) == name \o <<COLON>> \o FormatNumber(v)

\* lines 287-303: a rotation field is listed when set and changed
ChangedPart(name, now, before) ==
    IF ~OptionEq(now, before) /\ IsSome(now)
    THEN <<[name |-> name, v |-> now[1]]>>
    ELSE <<>>

\* lines 306-312: a position field of a rotated key is listed when set
PresentPart(name, now) ==
    IF IsSome(now) THEN <<[name |-> name, v |-> now[1]]>> ELSE <<>>

\* mutant of DeltaParts: y and x of a rotated key are listed only when
\* changed
DeltaPartsChangedOnly(props, last_props) ==
    IF IsSome(props.r) \/ IsSome(props.rx) \/ IsSome(props.ry)
    THEN ChangedPart(FieldChars.r, props.r, last_props.r)
         \o ChangedPart(FieldChars.rx, props.rx, last_props.rx)
         \o ChangedPart(FieldChars.ry, props.ry, last_props.ry)
         \o ChangedPart(FieldChars.y, props.y, last_props.y)
         \o ChangedPart(FieldChars.x, props.x, last_props.x)
    ELSE ChangedPart(FieldChars.y, props.y, last_props.y)
         \o ChangedPart(FieldChars.x, props.x, last_props.x)

\* lines 282-326: the fields of the delta object with the numbers to
\* format, in order
DeltaParts(props, last_props) ==
    IF IsSome(props.r) \/ IsSome(props.rx) \/ IsSome(props.ry)
    THEN ChangedPart(FieldChars.r, props.r, last_props.r)
         \o ChangedPart(FieldChars.rx, props.rx, last_props.rx)
         \o ChangedPart(FieldChars.ry, props.ry, last_props.ry)
         \o PresentPart(FieldChars.y, props.y)
         \o PresentPart(FieldChars.x, props.x)
    ELSE ChangedPart(FieldChars.y, props.y, last_props.y)
         \o ChangedPart(FieldChars.x, props.x, last_props.x)

\* lines 289-311: each field pushed as its formatted part
FormattedParts(fields) ==
    [i \in 1..Len(fields) |-> Part(fields[i].name, fields[i].v)] \o <<>>

\* lines 328-332: None without parts, else the parts inside braces
PropertyObject(parts) ==
    IF Len(parts) = 0 THEN None
    ELSE Some(<<LBRACE>> \o Join(parts, <<COMMA>>) \o <<RBRACE>>)

\* lines 278-333
FormatPropertyObject(props, last_props) ==
    PropertyObject(FormattedParts(DeltaParts(props, last_props)))

HexDigits == Chars(<<"0", "1", "2", "3", "4", "5", "6", "7", "8", "9", "a", "b", "c", "d", "e", "f">>)

\* serde_json's escaping of one character of a string: the quote, the
\* backslash and the characters below U+0020
EscapeChar(c) ==
    CASE c = QUOTE -> <<BSLASH, QUOTE>>
      [] c = BSLASH -> <<BSLASH, BSLASH>>
      [] c = NL -> <<BSLASH, LOWER_N>>
      [] c = CR -> <<BSLASH, LOWER_R>>
      [] c = TAB -> <<BSLASH, LOWER_T>>
      [] c = BS -> <<BSLASH, LOWER_B>>
      [] c = FF -> <<BSLASH, LOWER_F>>
      [] c < 32 -> <<BSLASH, LOWER_U, DIGIT0, DIGIT0,
                     HexDigits[(c \div 16) + 1], HexDigits[(c % 16) + 1]>>
      [] OTHER -> <<c>>

RECURSIVE EscapeText(_)
EscapeText(str) ==
    IF Len(str) = 0 THEN <<>> ELSE EscapeChar(str[1]) \o EscapeText(Tail(str))

JsonString(str) == <<QUOTE>> \o EscapeText(str) \o <<QUOTE>>
JsonNull == Words.null

\* a derived Serialize writes every field; None is written as null
JsonOptionString(o) == IF IsSome(o) THEN JsonString(o[1]) ELSE JsonNull

JsonEntry(name, value) == JsonString(name) \o <<COLON>> \o value

\* lines 18-22: Background as a JSON object
JsonBackground(o) ==
    IF IsSome(o)
    THEN <<LBRACE>> \o JsonEntry(BackgroundFieldChars.name, JsonString(o[1].name))
         \o <<COMMA>> \o JsonEntry(BackgroundFieldChars.style, JsonString(o[1].style))
         \o <<RBRACE>>
    ELSE JsonNull

\* lines 5-16: the entries of the metadata object, in field order
MetadataEntries(m) ==
    <<[name |-> MetadataFieldChars.author,
       value |-> JsonOptionString(m.author)],
      [name |-> MetadataFieldChars.backcolor,
       value |-> JsonOptionString(m.backcolor)],
      [name |-> MetadataFieldChars.background,
       value |-> JsonBackground(m.background)],
      [name |-> MetadataFieldChars.name,
       value |-> JsonOptionString(m.name)],
      [name |-> MetadataFieldChars.notes,
       value |-> JsonOptionString(m.notes)],
      [name |-> MetadataFieldChars.radii,
       value |-> JsonOptionString(m.radii)],
      [name |-> MetadataFieldChars.switch_brand,
       value |-> JsonOptionString(m.switch_brand)],
      [name |-> MetadataFieldChars.switch_mount,
       value |-> JsonOptionString(m.switch_mount)],
      [name |-> MetadataFieldChars.switch_type,
       value |-> JsonOptionString(m.switch_type)]>>

\* line 339: serde_json::to_string(metadata)
MetadataToString(m) ==
    LET es == MetadataEntries(m)
    IN <<LBRACE>>
       \o Join([i \in 1..Len(es) |-> JsonEntry(es[i].name, es[i].value)], <<COMMA>>)
       \o <<RBRACE>>

\* mutant of RowNumber: the counter is incremented after the key is put
\* in the map
RowNumberAfterPlacing(keys, i) ==
    Cardinality({j \in 1..(i - 1) : IsSome(keys[j].properties.y)
                                    /\ IsNegative(keys[j].properties.y[1])})

\* lines 345-356: the row counter when the i-th key is put in the map
RowNumber(keys, i) ==
    Cardinality({j \in 1..i : IsSome(keys[j].properties.y)
                              /\ IsNegative(keys[j].properties.y[1])})

RECURSIVE Ascending(_)
Ascending(S) ==
    IF S = {} THEN <<>>
    ELSE LET m == CHOOSE x \in S : \A y \in S : x <= y
         IN <<m>> \o Ascending(S \ {m})

\* lines 359-360: the row numbers in use, sorted
SortedRowNumbers(keys) == Ascending({RowNumber(keys, i) : i \in 1..Len(keys)})

\* line 355: the keys of one row of the map, in insertion order
RowKeys(keys, r) == Ascending({i \in 1..Len(keys) : RowNumber(keys, i) = r})

\* lines 366-398: the rows as lists of key indices, in output order
OutputRows(keys) ==
    LET rs == SortedRowNumbers(keys)
    IN [k \in 1..Len(rs) |-> RowKeys(keys, rs[k])]

RECURSIVE Concat(_)
Concat(seqs) == IF Len(seqs) = 0 THEN <<>> ELSE seqs[1] \o Concat(Tail(seqs))

\* lines 362 and 393: the properties the i-th emitted key is compared with
LastProps(keys, order, i) ==
    IF i = 1 THEN DefaultProperties ELSE keys[order[i - 1]].properties

\* lines 389-391: the legends joined by the marker, inside quotes
LegendText(key) == <<QUOTE>> \o Join(key.legends, <<BSLASH, LOWER_N>>) \o <<QUOTE>>

\* lines 382-391: the delta object d, when there is one, and the legend
KeyTextWith(d, legend) ==
    (IF IsSome(d) THEN d[1] \o <<COMMA>> ELSE <<>>) \o legend

KeyText(key, last_props) ==
    KeyTextWith(FormatPropertyObject(key.properties, last_props), LegendText(key))

\* lines 343-398: the row arrays
RowsText(keys) ==
    LET rows == OutputRows(keys)
        order == Concat(rows)
        pos(k, j) == Len(Concat(SubSeq(rows, 1, k - 1))) + j
        rowText(k) ==
            <<LBRACKET>>
            \o Join([j \in 1..Len(rows[k]) |->
                        KeyText(keys[rows[k][j]], LastProps(keys, order, pos(k, j)))],
                    <<COMMA>>)
            \o <<RBRACKET>>
    IN Join([k \in 1..Len(rows) |-> rowText(k)], <<COMMA, NL>>)

\* lines 337-341: the metadata line
MetadataText(metadata) ==
    IF IsSome(metadata) THEN MetadataToString(metadata[1]) \o <<COMMA, NL>> ELSE <<>>

\* lines 277-401
ToRawFormat(kb) == MetadataText(kb.metadata) \o RowsText(kb.keys)

(***************************************************************************)
(* The inputs of the model                                                 *)
(***************************************************************************)
\* bounds of the stepwise input: rows, items over all rows, and the keys
\* of a Keyboard that goes through to_raw_format
MaxRows == 2
MaxItems == 3
MaxKeys == 2

\* x, w and the x-side fields of the secondary rectangle: {x:0.1,w:0.2,
\* x2:0.25,w2:1,l:true}; the sum of this x and this w is not an f64
PatchX ==
    VObj(<<[k |-> <<Code["x"]>>, v |-> VFloat(Decimal(FALSE, 1, 1))],
          [k |-> <<Code["w"]>>, v |-> VFloat(Decimal(FALSE, 2, 1))],
          [k |-> Chars(<<"x", "2">>), v |-> VFloat(Decimal(FALSE, 25, 2))],
          [k |-> Chars(<<"w", "2">>), v |-> VInt(1)],
          [k |-> <<Code["l"]>>, v |-> VBool(TRUE)]>>)

\* y, h and the y-side fields of the secondary rectangle
PatchY ==
    VObj(<<[k |-> <<Code["y"]>>, v |-> VInt(1)],
          [k |-> <<Code["h"]>>, v |-> VInt(2)],
          [k |-> Chars(<<"y", "2">>), v |-> VInt(1)],
          [k |-> Chars(<<"h", "2">>), v |-> VInt(1)],
          [k |-> <<Code["n"]>>, v |-> VBool(TRUE)],
          [k |-> <<Code["d"]>>, v |-> VBool(TRUE)]>>)

\* a rotation with both offsets
PatchRotate ==
    VObj(<<[k |-> <<Code["r"]>>, v |-> VInt(15)],
          [k |-> Chars(<<"r", "x">>), v |-> VInt(1)],
          [k |-> <<Code["x"]>>, v |-> VInt(2)],
          [k |-> <<Code["y"]>>, v |-> VInt(3)]>>)

\* a rotation centre alone, no offset
PatchRotateY ==
    VObj(<<[k |-> Chars(<<"r", "y">>), v |-> VInt(1)]>>)

\* every persistent field
PatchStyle ==
    VObj(<<[k |-> <<Code["c"]>>, v |-> VStr(Chars(<<"#", "a">>))],
          [k |-> <<Code["t"]>>, v |-> VStr(Chars(<<"#", "0">>))],
          [k |-> <<Code["g"]>>, v |-> VBool(TRUE)],
          [k |-> <<Code["a"]>>, v |-> VInt(4)],
          [k |-> <<Code["f"]>>, v |-> VInt(3)],
          [k |-> Chars(<<"f", "2">>), v |-> VInt(2)],
          [k |-> <<Code["p"]>>, v |-> VStr(Chars(<<"R", "1">>))]>>)

\* another keycap colour, nothing else
PatchColor ==
    VObj(<<[k |-> <<Code["c"]>>, v |-> VStr(Chars(<<"#", "b">>))]>>)

\* a numeric field holding a string
PatchBad ==
    VObj(<<[k |-> <<Code["x"]>>, v |-> VStr(<<Code["1"]>>)]>>)

Patches ==
    {PatchX, PatchY, PatchRotate, PatchRotateY, PatchStyle, PatchColor, PatchBad}
Legends == {VStr(<<Code["A"]>>)}
\* a number, and a nested array that holds a string
Others == {VInt(7), VArr(<<VStr(<<Code["Q"]>>)>>)}

\* a row array, whose items the item actions draw one by one
ArrayRow == VArr(<<>>)
\* top-level elements that are not arrays
NonArrayRows == {VStr(<<Code["K"]>>), VObj(<<>>)}

TextScenario1 ==
    Chars(<<"[", "{", "\"", "x", "\"", ":", "1", "}", ",", "\"", "A", "\"", "]">>)
TextScenario2 ==
    Chars(<<"[", "[", "\"", "Q", "\"", ",", "\"", "W", "\"", "]", ",", "[", "\"", "A", "\"", ",", "\"", "S", "\"", "]", "]">>)
TextScenario2Lines ==
    Chars(<<"[", "\"", "Q", "\"", ",", "\"", "W", "\"", "]", ",", "\n", "[", "\"", "A", "\"", ",", "\"", "S", "\"", "]">>)
TextScenario3 ==
    Chars(<<"{", "x", ":", "1", ",", "y", ":", "2", "}", ",", "\n", "\"", "K", "\"">>)
TextScenario3Row ==
    Chars(<<"[", "{", "x", ":", "1", ",", "y", ":", "2", "}", ",", "\n", "\"", "K", "\"", "]">>)
TextScenario4 ==
    Chars(<<"[", "\"", "T", "o", "p", "\\", "n", "B", "o", "t", "t", "o", "m", "\"", "]">>)
TextBareString ==
    Chars(<<"\"", "K", "\"">>)
TextBareNumber ==
    Chars(<<"[", "\"", "A", "\"", "]", ",", "\n", "7">>)
TextSecondObject ==
    Chars(<<"{", "n", "a", "m", "e", ":", "\"", "k", "b", "\"", "}", ",", "\n", "{", "x", ":", "1", "}", ",", "\n", "[", "\"", "A", "\"", "]">>)
TextBadPatch ==
    Chars(<<"[", "\"", "A", "\"", ",", "{", "x", ":", "\"", "1", "\"", "}", ",", "\"", "B", "\"", "]">>)
TextUnclosed ==
    Chars(<<"[", "\"", "A", "\"">>)
TextMetadata ==
    Chars(<<"{", "n", "a", "m", "e", ":", "\"", "k", "b", "\"", ",", "a", "u", "t", "h", "o", "r", ":", "\"", "m", "e", "\"", "}", ",", "\n", "[", "\"", "A", "\"", ",", "\"", "B", "\"", "]">>)
TextBadMetadata ==
    Chars(<<"{", "n", "a", "m", "e", ":", "1", "}", ",", "\n", "[", "\"", "A", "\"", "]">>)
TextCrLf ==
    Chars(<<"[", "\"", "A", "\"", "]", ",", "\r", "\n", "[", "\"", "B", "\"", "]", "\r", "\n">>)
TextEmpty ==
    <<>>
\* a number, a boolean, null and a nested array before the only legend
TextOtherItems ==
    Chars(<<"[", "1", ",", "t", "r", "u", "e", ",", "n", "u", "l", "l", ",", "[", "\"", "Q", "\"", "]", ",", "\"", "A", "\"", "]">>)
\* names already quoted; the first object ends with a number
TextQuotedAfterNumber ==
    Chars(<<"[", "{", "\"", "x", "\"", ":", "1", "}", ",", "\"", "A", "\"", ",", "{", "\"", "y", "\"", ":", "2", "}", ",", "\"", "B", "\"", "]">>)
\* a blank before a name already quoted
TextSpaceBeforeName ==
    Chars(<<"[", "{", " ", "\"", "a", "\"", ":", "4", "}", ",", "\"", "A", "\"", "]">>)
\* a u8 field holding 256, before the only key
TextBadAlign ==
    Chars(<<"[", "{", "a", ":", "2", "5", "6", "}", ",", "\"", "A", "\"", "]">>)
\* a row that is a string, then a row whose only item is a numeric field
\* holding a string: the lines "K", and [{x:"1"}]
TextBadPatchAfterString ==
    Chars(<<"\"", "K", "\"", ",", "\n", "[", "{", "x", ":", "\"", "1", "\"", "}", "]">>)
\* the same object before one whose name is cut off inside the two bytes
\* of U+00E9: [{x:"1"},{ab"<U+00E9>":1}]
TextBadPatchBeforeCut ==
    Chars(<<"[", "{", "x", ":", "\"", "1", "\"", "}", ",", "{", "a", "b", "\"">>)
        \o <<233>> \o Chars(<<"\"", ":", "1", "}", "]">>)
\* the texts that hold a patch object that does not decode
TextsWithBadPatch ==
    {TextBadPatch, TextBadAlign, TextBadPatchAfterString, TextBadPatchBeforeCut}
TextNestedMetadata ==
    Chars(<<"{", "b", "a", "c", "k", "g", "r", "o", "u", "n", "d", ":", "{", "n", "a", "m", "e", ":", "\"", "n", "\"", ",", "s", "t", "y", "l", "e", ":", "\"", "s", "\"", "}", ",", "n", "o", "t", "e", "s", ":", "\"", "x", "\"", "}", ",", "\n", "[", "\"", "A", "\"", "]">>)

\* texts with characters and numbers beyond ASCII letters and integers:
\* U+000C before ["A"]; [{ab"<U+00E9>":1}], where the name is cut off
\* inside the two bytes of U+00E9, and [{<U+00E9>"ab":1},"A"], where it is
\* cut off between characters; ["\u0041<U+00E9>\ud83d\ude00"]; a raw
\* U+0001 inside a legend; [{x:-0,w:1.5,h:1e0,a:7},"A",{x:2.25},"B"];
\* [{a:-0},"A"] and [{f:2.0},"A"]
TextBeyondAscii ==
    {<<FF>> \o Chars(<<"[", "\"", "A", "\"", "]">>),
     Chars(<<"[", "{", "a", "b", "\"">>) \o <<233>> \o Chars(<<"\"", ":", "1", "}", "]">>),
     Chars(<<"[", "{">>) \o <<233>>
         \o Chars(<<"\"", "a", "b", "\"", ":", "1", "}", ",", "\"", "A", "\"", "]">>),
     Chars(<<"[", "\"", "\\", "u", "0", "0", "4", "1">>) \o <<233>>
         \o Chars(<<"\\", "u", "d", "8", "3", "d", "\\", "u", "d", "e", "0", "0", "\"", "]">>),
     Chars(<<"[", "\"", "a">>) \o <<1>> \o Chars(<<"\"", "]">>),
     Chars(<<"[", "{", "x", ":", "-", "0", ",", "w", ":", "1", ".", "5", ",", "h", ":", "1", "e", "0", ",", "a", ":", "7", "}", ",", "\"", "A", "\"", ",", "{", "x", ":", "2", ".", "2", "5", "}", ",", "\"", "B", "\"", "]">>),
     Chars(<<"[", "{", "a", ":", "-", "0", "}", ",", "\"", "A", "\"", "]">>),
     Chars(<<"[", "{", "f", ":", "2", ".", "0", "}", ",", "\"", "A", "\"", "]">>)}

TextInputs ==
    TextBeyondAscii \cup
    {TextScenario1,
     TextScenario2,
     TextScenario2Lines,
     TextScenario3,
     TextScenario3Row,
     TextScenario4,
     TextBareString,
     TextBareNumber,
     TextSecondObject,
     TextBadPatch,
     TextUnclosed,
     TextMetadata,
     TextBadMetadata,
     TextCrLf,
     TextEmpty,
     TextOtherItems,
     TextQuotedAfterNumber,
     TextSpaceBeforeName,
     TextBadAlign,
     TextBadPatchAfterString,
     TextBadPatchBeforeCut,
     TextNestedMetadata}

\* the inputs of the round trip through to_raw_format
\* an x offset, a width and a colour, which persists on the later keys:
\* {x:0.1,w:0.2,c:"#a"}
RtPatchX ==
    VObj(<<[k |-> <<Code["x"]>>, v |-> VFloat(Decimal(FALSE, 1, 1))],
          [k |-> <<Code["w"]>>, v |-> VFloat(Decimal(FALSE, 2, 1))],
          [k |-> <<Code["c"]>>, v |-> VStr(Chars(<<"#", "a">>))]>>)

\* a negative y offset: {y:-0.5}
RtPatchUp ==
    VObj(<<[k |-> <<Code["y"]>>, v |-> VFloat(Decimal(TRUE, 5, 1))]>>)

\* a rotated key with both offsets: {r:15,rx:1,ry:2,y:-0,x:1}
RtPatchRotate ==
    VObj(<<[k |-> <<Code["r"]>>, v |-> VInt(15)],
          [k |-> Chars(<<"r", "x">>), v |-> VInt(1)],
          [k |-> Chars(<<"r", "y">>), v |-> VInt(2)],
          [k |-> <<Code["y"]>>, v |-> VFloat(Decimal(TRUE, 0, 0))],
          [k |-> <<Code["x"]>>, v |-> VInt(1)]>>)

RtPatches == {RtPatchX, RtPatchUp, RtPatchRotate}

\* legends as decoded: one of two lines, and one that holds a quote
RtLegends ==
    {VStr(Chars(<<"A", "\n", "B">>)), VStr(Chars(<<"a", "\"", "b">>))}

\* lines 5-16: a KeyboardMetadata with no field set
NoMetadata ==
    [author |-> None, backcolor |-> None, background |-> None, name |-> None,
     notes |-> None, radii |-> None, switch_brand |-> None,
     switch_mount |-> None, switch_type |-> None]

RtMetadata ==
    {None,
     Some([NoMetadata EXCEPT
               !.name = Some(Chars(<<"k", "b">>)),
               !.background = Some([name |-> <<Code["n"]>>, style |-> <<Code["s"]>>])])}

(***************************************************************************)
(* The state machine                                                       *)
(*                                                                         *)
(* parse runs either on a text (Preprocess, then Interpret) or, item by    *)
(* item, on decoded rows that the actions draw (OpenRow, PatchItem,        *)
(* LegendItem, OtherItem, EndRow, Finish).  log and nrows record what the  *)
(* stepwise run has consumed.                                              *)
(***************************************************************************)
VARIABLES pc, raw, processed, metadata, interp, log, nrows, result, out,
          result2, out2

vars == <<pc, raw, processed, metadata, interp, log, nrows, result, out,
          result2, out2>>

NoResult == [outcome |-> "none", metadata |-> None, keys |-> <<>>]

InitCommon ==
    /\ processed = <<>>
    /\ interp = InterpInit
    /\ log = <<>>
    /\ nrows = 0
    /\ result = NoResult
    /\ out = <<>>
    /\ result2 = NoResult
    /\ out2 = <<>>

\* parse is called on a text
InitText ==
    /\ pc = "text"
    /\ raw \in TextInputs
    /\ metadata = None
    /\ InitCommon

\* lines 166-168: the loop is about to start on decoded rows
InitRows(metas) ==
    /\ pc = "rows"
    /\ raw = <<>>
    /\ metadata \in metas
    /\ InitCommon

Init == InitText \/ InitRows({None})

\* lines 150-154; the panic of line 117 ends parse
Preprocess ==
    LET processed_data == PreprocessRawData(NormalizeInput(raw))
    IN /\ pc = "text"
       /\ processed' = IF processed_data.panic THEN processed ELSE processed_data.text
       /\ pc' = IF processed_data.panic THEN "failed" ELSE "processed"
       /\ result' = IF processed_data.panic THEN ParseFailed("panic") ELSE result
       /\ UNCHANGED <<raw, metadata, interp, log, nrows, out, result2, out2>>

\* lines 156-274, on the preprocessed text
Interpret ==
    /\ pc = "processed"
    /\ result' = ParseProcessed(processed)
    /\ pc' = IF result'.outcome = "ok" THEN "parsed" ELSE "failed"
    /\ UNCHANGED <<raw, processed, metadata, interp, log, nrows, out, result2, out2>>

\* lines 171-173: the next top-level element
OpenRow(row) ==
    /\ pc = "rows"
    /\ nrows < MaxRows
    /\ interp' = BeginRow(interp, row)
    /\ pc' = IF interp'.status = "run" THEN "row" ELSE "failed"
    /\ result' = IF interp'.status = "run" THEN result
                 ELSE ParseFailed(interp'.status)
    /\ UNCHANGED <<raw, processed, metadata, log, nrows, out, result2, out2>>

\* lines 175-270: the next item of the row
Item(item) ==
    /\ pc = "row"
    /\ interp' = ItemStep(interp, item)
    /\ log' = Append(log, [row |-> nrows, item |-> item])
    /\ pc' = IF interp'.status = "run" THEN "row" ELSE "failed"
    /\ result' = IF interp'.status = "run" THEN result
                 ELSE ParseFailed(interp'.status)
    /\ UNCHANGED <<raw, processed, metadata, nrows, out, result2, out2>>

\* the stepwise input holds at most MaxItems items
MoreItems == Len(log) < MaxItems

\* the Keyboards that go through to_raw_format hold at most MaxKeys keys,
\* each placed after at most one patch object
MoreKeys == Len(interp.keys) < MaxKeys
NoPatchPending == IF Len(log) = 0 THEN TRUE ELSE ~IsObject(log[Len(log)].item)

\* the rows of these Keyboards' inputs hold at least one item: to_raw_format
\* reads the stored properties and legends of the keys, which an empty row
\* does not change
RowHasItems == \E q \in DOMAIN log : log[q].row = nrows

PatchItem(S) == \E item \in S : Item(item)
LegendItem(S) == \E item \in S : Item(item)
OtherItem(S) == \E item \in S : Item(item)

\* line 271: the row has no more items
EndRow ==
    /\ pc = "row"
    /\ interp' = FinishRow(interp)
    /\ nrows' = nrows + 1
    /\ pc' = "rows"
    /\ UNCHANGED <<raw, processed, metadata, log, result, out, result2, out2>>

\* line 274: there are no more rows
Finish ==
    /\ pc = "rows"
    /\ result' = ParseDone(metadata, interp)
    /\ pc' = "parsed"
    /\ UNCHANGED <<raw, processed, metadata, interp, log, nrows, out, result2, out2>>

\* lines 277-401: to_raw_format on the Keyboard that parse returned
Serialize ==
    /\ pc = "parsed"
    /\ out' = ToRawFormat(result)
    /\ pc' = "emitted"
    /\ UNCHANGED <<raw, processed, metadata, interp, log, nrows, result, result2, out2>>

\* lines 148-275: parse on the text that to_raw_format produced
Reparse ==
    /\ pc = "emitted"
    /\ result2' = Parse(out)
    /\ pc' = IF result2'.outcome = "ok" THEN "reparsed" ELSE "refused"
    /\ UNCHANGED <<raw, processed, metadata, interp, log, nrows, result, out, out2>>

\* lines 277-401: to_raw_format on the Keyboard of the second parse
Reserialize ==
    /\ pc = "reparsed"
    /\ out2' = ToRawFormat(result2)
    /\ pc' = "done"
    /\ UNCHANGED <<raw, processed, metadata, interp, log, nrows, result, out, result2>>

Next ==
    \/ Preprocess
    \/ Interpret
    \/ OpenRow(ArrayRow)
    \/ \E row \in NonArrayRows : OpenRow(row)
    \/ MoreItems /\ PatchItem(Patches)
    \/ MoreItems /\ LegendItem(Legends)
    \/ MoreItems /\ OtherItem(Others)
    \/ EndRow
    \/ Finish

Spec == Init /\ [][Next]_vars

InitRT == InitRows(RtMetadata)

NextRT ==
    \/ OpenRow(ArrayRow)
    \/ MoreKeys /\ NoPatchPending /\ PatchItem(RtPatches)
    \/ MoreKeys /\ LegendItem(RtLegends)
    \/ RowHasItems /\ EndRow
    \/ Finish
    \/ Serialize
    \/ Reparse
    \/ Reserialize

SpecRT == InitRT /\ [][NextRT]_vars

(***************************************************************************)
(* What the stepwise run has consumed, read from the log                   *)
(***************************************************************************)
IsPatchAt(p) == IsObject(log[p].item)
IsLegendAt(p) == IsString(log[p].item)

\* the patch object holds a value for the field
PatchSets(item, f) ==
    HasMember(item, FieldChars[f]) /\ Member(item, FieldChars[f]).t # "null"

\* the value the patch object holds for the field
PatchValue(item, f) ==
    LET m == Member(item, FieldChars[f])
    IN CASE m.t = "num" -> IF f \in {"a", "f", "f2"} THEN AsU8(m.n) ELSE AsF64(m.n)
         [] m.t = "bool" -> m.b
         [] OTHER -> m.s

\* the index in keys of the key that the legend at log position q placed
KeyIndex(q) == Cardinality({p \in 1..q : IsLegendAt(p)})
KeyAt(q) == interp.keys[KeyIndex(q)]

NoPatchBetween(p, q) == \A m \in (p + 1)..(q - 1) : ~IsPatchAt(m)
NoLegendBetween(p, q) == \A m \in (p + 1)..(q - 1) : ~IsLegendAt(m)

\* q is the first legend after position p
FirstLegendAfter(p, q) == q > p /\ IsLegendAt(q) /\ NoLegendBetween(p, q)

\* a patch strictly between the positions q and q2 sets the field
SetsBetween(q, q2, f) ==
    \E m \in (q + 1)..(q2 - 1) : IsPatchAt(m) /\ PatchSets(log[m].item, f)

\* the field is unset on the key after the one placed at q, unless a patch
\* between the two legends sets it
UnsetOnNextKey(q, f) ==
    \A q2 \in DOMAIN log :
        (FirstLegendAfter(q, q2) /\ ~SetsBetween(q, q2, f))
            => KeyAt(q2).properties[f] = None

(***************************************************************************)
(* The claims                                                              *)
(***************************************************************************)
\* C1, as stated: a transient field set by a patch object is recorded on
\* the first legend placed after that patch, whatever stands between the
\* two, and is unset on the following key unless a patch between the two
\* legends sets it again.
C1_Original ==
    \A p \in DOMAIN log : \A f \in TransientFields :
        (IsPatchAt(p) /\ PatchSets(log[p].item, f)) =>
            \A q \in DOMAIN log :
                FirstLegendAfter(p, q) =>
                    /\ KeyAt(q).properties[f] = Some(PatchValue(log[p].item, f))
                    /\ UnsetOnNextKey(q, f)

\* C1, amended: a transient field set by the last patch object before a
\* legend (no other patch object stands between the two) is recorded on
\* that legend's key and is unset on the following key, unless a patch
\* object between the two legends sets it again.
C1_TransientIsolation ==
    \A p \in DOMAIN log : \A f \in TransientFields :
        (IsPatchAt(p) /\ PatchSets(log[p].item, f)) =>
            \A q \in DOMAIN log :
                (FirstLegendAfter(p, q) /\ NoPatchBetween(p, q)) =>
                    /\ KeyAt(q).properties[f] = Some(PatchValue(log[p].item, f))
                    /\ UnsetOnNextKey(q, f)

\* a patch sets w, the next item is a legend that carries it, and the
\* legend after that one has w unset
C1_Witness ==
    \E p \in DOMAIN log :
        /\ p + 2 <= Len(log)
        /\ IsPatchAt(p) /\ PatchSets(log[p].item, "w")
        /\ IsLegendAt(p + 1) /\ IsLegendAt(p + 2)
        /\ KeyAt(p + 1).properties.w = Some(Decimal(FALSE, 2, 1))
        /\ KeyAt(p + 2).properties.w = None

\* C2: every key carries, for each persistent field, the value of the
\* latest patch before it that set the field (in its row or an earlier
\* one), and unset when no patch did; patches that omit the field and
\* placed keys in between change nothing.  The accumulator holds the same.
C2_PersistentPropagation ==
    \A f \in PersistentFields :
        LET setters(q) == {p \in 1..(q - 1) : IsPatchAt(p) /\ PatchSets(log[p].item, f)}
            latest(q) == CHOOSE p \in setters(q) : \A m \in setters(q) : m <= p
            expected(q) == IF setters(q) = {} THEN None
                           ELSE Some(PatchValue(log[latest(q)].item, f))
        IN /\ \A q \in DOMAIN log :
                  IsLegendAt(q) => KeyAt(q).properties[f] = expected(q)
           /\ interp.status = "run" =>
                  interp.current_properties[f] = expected(Len(log) + 1)

\* a patch sets c in row 0; a later patch that omits c and a key follow,
\* and a key of row 1 still carries that colour
C2_Witness ==
    \E p \in DOMAIN log : \E m \in DOMAIN log : \E q \in DOMAIN log :
        /\ p < m /\ m < q
        /\ IsPatchAt(p) /\ PatchSets(log[p].item, "c")
        /\ IsPatchAt(m) /\ ~PatchSets(log[m].item, "c")
        /\ IsLegendAt(q)
        /\ log[p].row = 0 /\ log[q].row = 1
        /\ KeyAt(q).properties.c = Some(PatchValue(log[p].item, "c"))

\* C3: when a legend is placed while r, rx or ry is set in the accumulator,
\* the key's x and y are the accumulator's x and y offsets (0 when unset),
\* whatever current_x and current_y are; otherwise they are current_x plus
\* the x offset and current_y plus the y offset.
C3_RotationOverride ==
    [][(pc = "row" /\ Len(interp'.keys) = Len(interp.keys) + 1) =>
          LET cp == interp.current_properties
              key == interp'.keys[Len(interp'.keys)]
          IN IF IsSome(cp.r) \/ IsSome(cp.rx) \/ IsSome(cp.ry)
             THEN key.x = UnwrapOr(cp.x, F64(0)) /\ key.y = UnwrapOr(cp.y, F64(0))
             ELSE /\ key.x = Add(interp.current_x, UnwrapOr(cp.x, F64(0)))
                  /\ key.y = Add(interp.current_y, UnwrapOr(cp.y, F64(0)))]_vars

\* a rotated key without offsets was placed at (0, 0) in row 1, after
\* another key of that row
C3_Witness ==
    \E q \in DOMAIN log :
        /\ q > 1 /\ IsLegendAt(q) /\ log[q].row = 1
        /\ \E m \in 1..(q - 1) : IsLegendAt(m) /\ log[m].row = 1
        /\ IsSome(KeyAt(q).properties.ry)
        /\ KeyAt(q).properties.x = None
        /\ KeyAt(q).x = F64(0) /\ KeyAt(q).y = F64(0)

\* C4: current_x is 0 from the start of a row until the row places a key;
\* current_y equals the number of rows that have ended, whatever they
\* held; and a non-rotated key without y offset in row i (from 0) has y = i.
C4_RowAccounting ==
    /\ (pc = "row" /\ \A q \in DOMAIN log : ~(IsLegendAt(q) /\ log[q].row = nrows))
           => interp.current_x = F64(0)
    /\ interp.current_y = F64(nrows)
    /\ \A q \in DOMAIN log :
           (IsLegendAt(q) /\ ~IsRotated(KeyAt(q).properties)
                          /\ KeyAt(q).properties.y = None)
               => KeyAt(q).y = F64(log[q].row)

\* row 0 held a key with a height and a y offset, or nothing at all, and a
\* plain key of row 1 sits at y = 1 once both rows have ended
C4_Witness ==
    /\ nrows = 2 /\ interp.current_y = F64(2)
    /\ \E q \in DOMAIN log :
           /\ IsLegendAt(q) /\ log[q].row = 1
           /\ KeyAt(q).properties.y = None /\ KeyAt(q).y = F64(1)
           /\ \E m \in 1..(q - 1) :
                  /\ IsLegendAt(m) /\ log[m].row = 0
                  /\ KeyAt(m).properties.h = Some(F64(2))
                  /\ KeyAt(m).properties.y = Some(F64(1))

\* what a Keyboard holds for each key: legends and resolved coordinates
Placed(keys) == [i \in 1..Len(keys) |-> <<keys[i].legends, keys[i].x, keys[i].y>>]

ParseReturned == pc \in {"parsed", "failed"}

FourKeys ==
    <<<<<<<<Code["Q"]>>>>, F64(0), F64(0)>>, <<<<<<Code["W"]>>>>, F64(1), F64(0)>>,
      <<<<<<Code["A"]>>>>, F64(0), F64(1)>>, <<<<<<Code["S"]>>>>, F64(1), F64(1)>>>>

\* C5: with T the text to_raw_format gives for a Keyboard that parse
\* produced, to_raw_format(parse(T)) is the same text as T.
C5_RoundTrip == pc = "done" => out2 = out

\* C6: parse returns a Keyboard or a decode error for every input; it never
\* aborts in another way, also when a top-level element is not an array.
C6_ParseTotal == result.outcome \in {"none", "ok", "err"}

\* C7, as stated: parsing the text [["Q","W"],["A","S"]] yields the four
\* keys Q and W at y = 0, A and S at y = 1, with x = 0 and 1 in each row.
C7_Original ==
    (raw = TextScenario2 /\ ParseReturned) =>
        result.outcome = "ok" /\ Placed(result.keys) = FourKeys

\* C7, amended: parsing the text made of the two lines ["Q","W"], and
\* ["A","S"] yields the four keys Q and W at y = 0, A and S at y = 1, with
\* x = 0 and 1 in each row.
C7_Scenario2 ==
    (raw = TextScenario2Lines /\ ParseReturned) =>
        result.outcome = "ok" /\ Placed(result.keys) = FourKeys

\* parse has returned on the two-line text, with four keys
C7_Witness ==
    raw = TextScenario2Lines /\ pc = "parsed" /\ Len(result.keys) = 4

\* C8, as stated: the input made of the line {x:1,y:2}, and the line "K"
\* is repaired so that the object reads {"x":1,"y":2}, and parse returns a
\* Keyboard with exactly the key K at x = 1, y = 2.
C8_Original ==
    /\ (raw = TextScenario3 /\ pc # "text") =>
           processed = Chars(<<"[", "{", "\"", "x", "\"", ":", "1", ",", "\"", "y", "\"", ":", "2", "}", ",", "\"", "K", "\"", "]">>)
    /\ (raw = TextScenario3 /\ ParseReturned) =>
           /\ result.outcome = "ok"
           /\ Placed(result.keys) = <<<<<<<<Code["K"]>>>>, F64(1), F64(2)>>>>

\* C8, amended: the input made of the line [{x:1,y:2}, and the line "K"],
\* a row array holding the two items, is repaired so that the object reads
\* {"x":1,"y":2}, and parse returns a Keyboard with exactly the key K at
\* x = 1, y = 2.
C8_Scenario3 ==
    /\ (raw = TextScenario3Row /\ pc # "text") =>
           processed = Chars(<<"[", "[", "{", "\"", "x", "\"", ":", "1", ",", "\"", "y", "\"", ":", "2", "}", ",", "\"", "K", "\"", "]", "]">>)
    /\ (raw = TextScenario3Row /\ ParseReturned) =>
           /\ result.outcome = "ok"
           /\ Placed(result.keys) = <<<<<<<<Code["K"]>>>>, F64(1), F64(2)>>>>

\* parse has returned on the row text, with the key K carrying both offsets
C8_Witness ==
    /\ raw = TextScenario3Row /\ pc = "parsed"
    /\ Len(result.keys) = 1
    /\ result.keys[1].properties.x = Some(F64(1))
    /\ result.keys[1].properties.y = Some(F64(2))

\* C9: parsing the text that to_raw_format emitted succeeds and gives, key
\* by key and in the same order, the legend lists of the Keyboard that was
\* serialized.
C9_LegendRoundTrip ==
    pc \in {"reparsed", "refused", "done"} =>
        /\ result2.outcome = "ok"
        /\ Len(result2.keys) = Len(result.keys)
        /\ \A i \in 1..Len(result.keys) :
               result2.keys[i].legends = result.keys[i].legends

\* C10: the metadata object that to_raw_format emits has an entry for a
\* metadata field exactly when the field is set.
C10_AbsentOmitted ==
    (pc = "emitted" /\ IsSome(result.metadata)) =>
        LET r == ParseValue(out, 1, RecursionLimit)
        IN /\ r.ok /\ IsObject(r.v)
           /\ \A f \in DOMAIN MetadataFieldChars :
                  HasMember(r.v, MetadataFieldChars[f])
                      <=> IsSome(result.metadata[1][f])

\* the keys that the legends of input row r placed, in order
InputRowKeys(r) ==
    Ascending({KeyIndex(q) : q \in {m \in DOMAIN log : IsLegendAt(m) /\ log[m].row = r}})

\* the input rows that hold at least one legend, in order
NonEmptyInputRows ==
    Ascending({r \in 0..(nrows - 1) : Len(InputRowKeys(r)) > 0})

\* the legend lists of the keys with the given indices
LegendsOf(keys, idx) == [j \in 1..Len(idx) |-> keys[idx[j]].legends]

NoNegativeY(keys) ==
    \A i \in 1..Len(keys) :
        IsSome(keys[i].properties.y) => ~IsNegative(keys[i].properties.y[1])

\* C11: for an input of N rows that hold legends, none with a negative y
\* offset, to_raw_format emits N row arrays, and the i-th emitted row holds
\* the legends of the i-th such input row, in the same order.
C11_RowGrouping ==
    (pc = "emitted" /\ NoNegativeY(result.keys)) =>
        LET emitted == OutputRows(result.keys)
            given == NonEmptyInputRows
        IN /\ Len(emitted) = Len(given)
           /\ \A k \in 1..Len(given) :
                  LegendsOf(result.keys, emitted[k])
                      = LegendsOf(result.keys, InputRowKeys(given[k]))

\* C12: when the emitted text parses again, the second Keyboard has as
\* many keys as the first and its i-th key stores the same x and y offsets
\* as the i-th key of the first.
C12_OffsetsReproduced ==
    pc \in {"reparsed", "done"} =>
        /\ Len(result2.keys) = Len(result.keys)
        /\ \A i \in 1..Len(result.keys) :
               /\ result2.keys[i].properties.x = result.keys[i].properties.x
               /\ result2.keys[i].properties.y = result.keys[i].properties.y

\* C13: a patch object that does not decode makes parse return a decode
\* error and no Keyboard wherever it stands in the input: once such an
\* object is the row item being read, whatever was consumed before it, and
\* on every text that holds one, whatever else the text holds.
C13_BadPatchFails ==
    /\ \A p \in DOMAIN log :
           log[p].item = PatchBad =>
               /\ p = Len(log)
               /\ pc = "failed"
               /\ result.outcome = "err"
               /\ result.keys = <<>> /\ result.metadata = None
    /\ (raw \in TextsWithBadPatch /\ pc \notin {"text", "processed"}) =>
           /\ pc = "failed"
           /\ result.outcome = "err"
           /\ result.keys = <<>> /\ result.metadata = None

\* the text that the quoting pass reads: the lines of the input, joined
JoinedText(text) ==
    LET lines == SplitLines(NormalizeInput(text))
    IN JoinAndWrap([i \in 1..Len(lines) |-> StripTrailingComma(lines[i])])

\* the scanner's state after the first i characters of the joined text
ScanStateAt(text, i) == ScanRange(ScanInit, JoinedText(text), 1, i)

\* C14: the candidate text is empty right after every brace that enters an
\* object, and a text whose property names are all quoted already leaves
\* the quoting pass unchanged, also after an object that ended with a
\* number and when a blank precedes the quoted name.
C14_QuotedNamesKept ==
    pc \notin {"text", "rows", "row"} =>
        /\ \A i \in 1..Len(JoinedText(raw)) :
               (JoinedText(raw)[i] = Code["{"] /\ ~ScanStateAt(raw, i).in_string)
                   => ScanStateAt(raw, i).property_name = <<>>
        /\ raw \in {TextQuotedAfterNumber, TextSpaceBeforeName}
               => processed = JoinedText(raw)

\* the i-th character of the text stands outside every quoted string
OutsideString(s, i) == Cardinality({j \in 1..(i - 1) : s[j] = QUOTE}) % 2 = 0

\* the positions up to i of the braces that stand outside strings
BracesUpTo(s, i) ==
    {j \in 1..i : s[j] \in {Code["{"], Code["}"]} /\ OutsideString(s, j)}

\* C15: after every character scanned the inside-object state tells only whether
\* the last brace outside a string was an opening one, whatever the
\* nesting; so in the metadata line with a nested object the names before
\* the nested object and inside it are quoted and the name after it is not.
C15_NestingLimitation ==
    pc \notin {"text", "rows", "row"} =>
        /\ \A i \in 1..Len(JoinedText(raw)) :
               LET bs == BracesUpTo(JoinedText(raw), i)
                   last == CHOOSE j \in bs : \A m \in bs : m <= j
               IN ~ScanStateAt(raw, i).panic =>
                      ScanStateAt(raw, i).in_object
                          = (bs # {} /\ JoinedText(raw)[last] = Code["{"])
        /\ raw = TextNestedMetadata =>
               processed = Chars(<<"[", "{", "\"", "b", "a", "c", "k", "g", "r", "o", "u", "n", "d", "\"", ":", "{", "\"", "n", "a", "m", "e", "\"", ":", "\"", "n", "\"", ",", "\"", "s", "t", "y", "l", "e", "\"", ":", "\"", "s", "\"", "}", ",", "n", "o", "t", "e", "s", ":", "\"", "x", "\"", "}", ",", "[", "\"", "A", "\"", "]", "]">>)

\* the pass has run on the nested metadata line: notes went out unquoted
\* and the text does not decode
C15_Witness ==
    /\ raw = TextNestedMetadata /\ pc = "failed"
    /\ result.outcome = "err"
    /\ \E i \in 1..(Len(processed) - 1) :
           /\ processed[i] = Code[","]
           /\ processed[i + 1] = Code["n"] /\ processed[i + 2] = Code["o"]

\* the patch objects between the legend before position q (or the start of
\* the input) and position q
PatchesBefore(q) ==
    {p \in 1..(q - 1) : IsPatchAt(p) /\ \A m \in p..(q - 1) : ~IsLegendAt(m)}

\* C16: a key placed after one or more patch objects carries, for every
\* transient field, what the last of these patch objects holds for it:
\* its value when the patch sets the field, unset when it omits it,
\* whatever the earlier patch objects set.
C16_LastPatchWins ==
    \A q \in DOMAIN log : \A f \in TransientFields :
        (IsLegendAt(q) /\ PatchesBefore(q) # {}) =>
            LET ps == PatchesBefore(q)
                lp == CHOOSE p \in ps : \A m \in ps : m <= p
            IN KeyAt(q).properties[f] =
                   IF PatchSets(log[lp].item, f)
                   THEN Some(PatchValue(log[lp].item, f))
                   ELSE None

\* two patch objects precede a key: the first sets w, the last sets only
\* the persistent colour, and the key has the colour and no w
C16_Witness ==
    \E q \in DOMAIN log :
        /\ q > 2 /\ IsLegendAt(q)
        /\ log[q - 2].item = PatchX /\ log[q - 1].item = PatchColor
        /\ KeyAt(q).properties.w = None /\ KeyAt(q).properties.x = None
        /\ KeyAt(q).properties.c = Some(Chars(<<"#", "b">>))

\* the legends of the row being read, by log position
LegendsOfCurrentRow == {q \in DOMAIN log : IsLegendAt(q) /\ log[q].row = nrows}

\* C17: while a row is read, current_x is the resolved x of the row's last
\* key plus its width (1 when unset); and a non-rotated key that follows
\* another key of its row sits at that key's resolved x plus that key's
\* width (1 when unset) plus its own x offset (0 when unset), also when
\* the earlier key was rotated.
C17_ColumnAdvance ==
    /\ (pc = "row" /\ LegendsOfCurrentRow # {}) =>
           LET q == CHOOSE m \in LegendsOfCurrentRow :
                        \A k \in LegendsOfCurrentRow : k <= m
           IN interp.current_x = Add(KeyAt(q).x, UnwrapOr(KeyAt(q).properties.w, F64(1)))
    /\ \A q \in DOMAIN log : \A q2 \in DOMAIN log :
           (/\ IsLegendAt(q) /\ FirstLegendAfter(q, q2)
            /\ log[q].row = log[q2].row
            /\ ~IsRotated(KeyAt(q2).properties))
               => KeyAt(q2).x = Add(Add(KeyAt(q).x, UnwrapOr(KeyAt(q).properties.w, F64(1))),
                                    UnwrapOr(KeyAt(q2).properties.x, F64(0)))

\* a rotated key was placed at its absolute x = 2 after a plain key of the
\* same row, and the column stands at 3
C17_Witness ==
    /\ pc = "row" /\ Len(log) = 3
    /\ IsLegendAt(1) /\ log[2].item = PatchRotate /\ IsLegendAt(3)
    /\ log[1].row = log[3].row
    /\ KeyAt(1).x = F64(0) /\ KeyAt(3).x = F64(2)
    /\ interp.current_x = F64(3)

\* the number of string items that the stepwise run has consumed
StringItems(l) == Cardinality({q \in DOMAIN l : IsString(l[q].item)})

\* C20: a row item that is neither an object nor a string leaves the keys,
\* the accumulator's properties, current_x and current_y as they are; the
\* keys placed are as many as the string items consumed, and so are the
\* keys of the returned Keyboard.
C20_OthersIgnored ==
    [][/\ (pc = "row" /\ Len(log') = Len(log) + 1
                      /\ ~IsObject(log'[Len(log')].item)
                      /\ ~IsString(log'[Len(log')].item))
           => (interp' = interp /\ pc' = "row")
       /\ Len(interp'.keys) = StringItems(log')
       /\ (pc' = "parsed" /\ raw' = <<>>) => Len(result'.keys) = StringItems(log')
       /\ (pc' = "parsed" /\ raw' = TextOtherItems) =>
              Placed(result'.keys) = <<<<<<<<Code["A"]>>>>, F64(0), F64(0)>>>>]_vars

\* parse returned one key for a row that held a patch, a nested array with
\* a string inside, and a legend carrying the patch's offset
C20_Witness ==
    /\ pc = "parsed" /\ Len(log) = 3
    /\ log[1].item = PatchX
    /\ IsArray(log[2].item) /\ Len(log[2].item.a) = 1
    /\ IsLegendAt(3)
    /\ Len(result.keys) = 1
    /\ result.keys[1].properties.x = Some(Decimal(FALSE, 1, 1))
    /\ result.keys[1].x = Decimal(FALSE, 1, 1)

\* the fields that the delta object of a key lists, in order, given the
\* properties of the key emitted just before
DeltaFields(props, prev) ==
    LET changed(f) == IsSome(props[f]) /\ ~OptionEq(props[f], prev[f])
        present(f) == IsSome(props[f])
        rotated(f) == IF f \in {"y", "x"} THEN present(f) ELSE changed(f)
    IN IF IsSome(props.r) \/ IsSome(props.rx) \/ IsSome(props.ry)
       THEN SelectSeq(<<"r", "rx", "ry", "y", "x">>, rotated)
       ELSE SelectSeq(<<"y", "x">>, changed)

\* the delta object and its comma, or nothing when no field is listed
DeltaText(props, prev) ==
    LET fs == DeltaFields(props, prev)
    IN IF Len(fs) = 0 THEN <<>>
       ELSE <<Code["{"]>>
            \o Join([i \in 1..Len(fs) |->
                        FieldChars[fs[i]] \o <<Code[":"]>> \o FormatNumber(props[fs[i]][1])],
                    <<Code[","]>>)
            \o <<Code["}"], Code[","]>>

\* the properties of the key stored just before the i-th, all unset for
\* the first
StoredBefore(keys, i) == IF i = 1 THEN DefaultProperties ELSE keys[i - 1].properties

\* C18: the emitted text is the metadata line followed by the row arrays,
\* where each key is written as its delta object, if any, and its legend;
\* the delta object lists r, rx, ry (each when set and changed), then y, x
\* (each when set) for a key with r, rx or ry set, and y, x (each when set
\* and changed) for any other key, compared with the key emitted just
\* before, also across rows, and with all-unset for the first key.
C18_DeltaContent ==
    pc = "emitted" =>
        LET keys == result.keys
            rows == OutputRows(keys)
            keyText(i) == DeltaText(keys[i].properties, StoredBefore(keys, i))
                          \o LegendText(keys[i])
            rowText(k) == <<Code["["]>>
                          \o Join([j \in 1..Len(rows[k]) |-> keyText(rows[k][j])], <<Code[","]>>)
                          \o <<Code["]"]>>
        IN out = MetadataText(result.metadata)
                 \o Join([k \in 1..Len(rows) |-> rowText(k)], <<Code[","], NL>>)

\* two rotated keys with the same r, rx, ry and the same offsets, the y
\* offset being -0, were emitted in one row: the second delta object lists
\* y and x only
C18_Witness ==
    /\ pc = "emitted" /\ Len(result.keys) = 2 /\ result.metadata = None
    /\ result.keys[1].properties.r = Some(F64(15))
    /\ result.keys[2].properties = result.keys[1].properties
    /\ LegendsOf(result.keys, <<1, 2>>)
           = <<<<<<Code["A"]>>, <<Code["B"]>>>>, <<<<Code["A"]>>, <<Code["B"]>>>>>>
    /\ out = Chars(<<"[", "{", "r", ":", "1", "5", ",", "r", "x", ":", "1", ",",
                      "r", "y", ":", "2", ",", "y", ":", "-", "0", ",",
                      "x", ":", "1", "}", ",", "\"", "A", "\\", "n", "B", "\"", ",",
                      "{", "y", ":", "-", "0", ",", "x", ":", "1", "}", ",",
                      "\"", "A", "\\", "n", "B", "\"", "]">>)

\* C19: the emitted rows hold every key once, in stored order when read
\* row after row, and none is empty; the first key is in the first row
\* even with a negative y offset, and a key is in the same row as the key
\* stored before it exactly when its stored y offset is unset or not
\* negative, otherwise it starts the next row.
C19_RowRegrouping ==
    pc = "emitted" =>
        LET keys == result.keys
            rows == OutputRows(keys)
            rowOf(i) == CHOOSE k \in 1..Len(rows) : \E j \in 1..Len(rows[k]) : rows[k][j] = i
            negative(i) == IsSome(keys[i].properties.y) /\ IsNegative(keys[i].properties.y[1])
        IN /\ Concat(rows) = [i \in 1..Len(keys) |-> i]
           /\ \A k \in 1..Len(rows) : Len(rows[k]) > 0
           /\ Len(keys) > 0 => rowOf(1) = 1
           /\ \A i \in 2..Len(keys) :
                  rowOf(i) = rowOf(i - 1) + (IF negative(i) THEN 1 ELSE 0)
           /\ \A i \in 1..Len(keys) :
                  RowNumber(keys, i) = RowNumber(keys, 1) + rowOf(i) - 1
           /\ Len(keys) > 0 => RowNumber(keys, 1) = (IF negative(1) THEN 1 ELSE 0)

\* two keys were regrouped into two rows: the second one stores a negative
\* y offset, the first one none
C19_Witness ==
    /\ pc = "emitted" /\ Len(result.keys) = 2
    /\ result.keys[1].properties.y = None
    /\ result.keys[2].properties.y = Some(Decimal(TRUE, 5, 1))
    /\ OutputRows(result.keys) = <<<<1>>, <<2>>>>

=============================================================================
